---- MODULE Spec2Model ----
(***************************************************************************)
(* TurtleCam motion pipeline (src/motion_detector.py): the TurtleTracker   *)
(* state machine and the capture loop of MotionDetector with its event     *)
(* buffer, the flush (_process_motion_event) and stop().                   *)
(*                                                                         *)
(* Time is a discrete clock (one unit = one second).  Image processing     *)
(* (resize, absdiff, contours, matchTemplate) is not computed: its result  *)
(* is an input of the step that calls it.  tracking_confidence is a Python *)
(* float; it is kept as an exact reduced fraction [n, d].                  *)
(*                                                                         *)
(* Spec follows the capture loop and a stop() called from another thread,  *)
(* at the granularity of the accesses to running and current_event_frames; *)
(* there the value track_turtle returns is an input of the iteration.      *)
(* SpecTracker follows the TurtleTracker state over a sequence of          *)
(* track_turtle calls.                                                     *)
(* SpecBBox follows the bounding boxes the tracker and the localization    *)
(* return for rectangles at the edges of the frame.  SpecFrames computes   *)
(* the frame comparison and the corruption filter on small grey frames.    *)
(* SpecPipeline runs the capture loop with the tracker on a scripted       *)
(* scene, ended by an interrupt and the stop() of main().  SpecBuilder     *)
(* follows the alert builder of src/gif_builder.py (frame decimation,      *)
(* build_gif, build_mp4 and its scratch files).                            *)
(* SpecTemplate applies _template_tracking_comparison to the boxes a lock  *)
(* can hold; SpecCrop applies _crop_motion_area and _create_high_res_crop  *)
(* to motion boxes.  SpecOrch follows the processing thread of             *)
(* src/turtlecam/vision/orchestrator.py and its process_queue, with weak   *)
(* fairness on the steps a running thread takes by itself.  SpecRelay      *)
(* follows src/turtlecam/relay/controller.py (set_relay, the schedule      *)
(* loop, the manual overrides, handle_high_temperature), one clock unit a  *)
(* minute.  SpecEnv follows the checks of                                  *)
(* src/turtlecam/env_monitor/alerting.py, one clock unit a minute.         *)
(* SpecTimeout follows the capture loop alone past the end of the clock,   *)
(* with weak fairness on the loop thread and on the clock.                 *)
(* SpecRelayThreads takes _check_manual_overrides step by step next to     *)
(* the threads that call set_relay.  SpecGif follows the orchestrator with *)
(* the crop store and the buffer of src/turtlecam/vision/gif_builder.py.   *)
(* SpecTelegram follows send_motion_alert of src/telegram_bot.py.          *)
(***************************************************************************)
EXTENDS Integers, Sequences, FiniteSets, TLC

\* ------------------------------------------------------------------ bounds
\* Configuration values, instantiated small (config.alert.max_frames
\* defaults to 16, config.motion.inactivity_timeout to 8.0).
max_frames == 3
inactivity_timeout == 2
\* config.camera.still_frame_interval (read at motion_detector.py:552).
still_frame_interval == 1
\* Wall-clock value when the loop starts; last_capture_time and
\* last_motion_time start at 0, far in the past.
BootTime == 4
\* The clock stops advancing MaxTime seconds after BootTime.
MaxTime == 5
\* Number of track_turtle calls explored by SpecTracker.
MaxCalls == 8
\* Frame size (config.camera.capture_width / capture_height).
FrameW == 400
FrameH == 300
\* config.camera.comparison_width / comparison_height (motion_detector.py:311).
comparison_width == 320
comparison_height == 240
\* config.motion.crop_margin (motion_detector.py:376), pixels.
crop_margin == 20
\* config.camera.alert_downscale_width (motion_detector.py:422).
alert_downscale_width == 250
\* VisionOrchestrator: maxsize of process_queue (orchestrator.py:58, 100
\* there), the orchestrator's inactivity_timeout and the length of the
\* clock.
QueueMax == 2
orch_inactivity_timeout == 2
OrchMaxTime == 5
\* GIFBuilder.max_frames of the orchestrator (orchestrator.py:109, 20
\* there) and the number of rows the detections table gets.
gif_max_frames == 3
MaxCrops == 3
\* TurtleCamBot: the length of its clock.
TgMaxTime == 4
\* RelayController: the length of its clock (minutes) and the longest
\* duration of a manual override tried.
RelayMaxTime == 3
MaxDuration == 2
\* EnvAlertMonitor, times in minutes: check_interval (60 s by default,
\* alerting.py:22), alert_cooldown (15 minutes by default, alerting.py:25)
\* and the length of the clock.
check_interval == 1
alert_cooldown == 3
EnvMaxTime == 11
\* Number of track_turtle calls explored by SpecBBox.
MaxBoxCalls == 4
\* Frames of the frame functions: RowLen pixels per row, reduced to CmpLen
\* pixels by _compare_still_frames and to TinyLen by the localization;
\* the morphology kernel reaches KernelR pixels to each side (3 for the
\* 7x7 kernel of line 328).
RowLen == 3
CmpLen == 2
TinyLen == 2
KernelR == 1
\* The scene fed to the pipeline by SpecPipeline: SceneLen frames, one per
\* still_frame_interval, of which frames SquareFirst..SquareLast show a
\* moving square and the others only the background.
SceneLen == 8
SquareFirst == 3
SquareLast == 4
\* Pixels per row of the frames handed to _is_frame_corrupted.
FilterLen == 12
\* Longest frame list handed to the AlertBuilder.
MaxInput == 12

\* ------------------------------------------------------- program constants
TemplateMargin == 20
SearchMargin == 100
MinTemplate == 10
\* Size of the medium frame of _turtle_localization_comparison.
LocW == 320
LocH == 240
\* cv2.threshold(diff, 25, 255, THRESH_BINARY), lines 99 and 325.
DiffThreshold == 25
MaskOn == 255
\* np.mean(diff_tiny) < 10, line 86.
MeanFloor == 10
\* _is_frame_corrupted, lines 279-288.
DarkMean == 5
BrightMean == 250
UniformStd == 1
NoisyStd == 100
StripeRows == 100
StripeValues == 10
MaxPixel == 255

\* min_crop_size of _crop_motion_area (line 385).
MinCropSize == 200

\* duration_minutes of the safety overrides (controller.py:409, 413).
SafetyMinutes == 30

\* Default thresholds (alerting.py:23-24) and the length of the safety
\* period in minutes (alerting.py:146).
temp_low_threshold == 22
temp_high_threshold == 33
SafetyPeriod == 5

NoBBox == <<>>
NoFrame == 0

VARIABLES
  \* TurtleTracker
  last_bbox,             \* NoBBox or <<x, y, w, h>>
  tracking_confidence,   \* [n |-> numerator, d |-> denominator]
  \* history of the tracker calls
  calls,                 \* number of track_turtle calls made
  failRun,               \* consecutive failed calls since a lock with confidence 1, or -1
  lastBranch,            \* branch taken by the last call
  lastResult,            \* <<has_motion, bbox>> returned by the last call
  \* MotionDetector
  now,                   \* time.time()
  running,               \* self.running
  pc,                    \* position of the loop thread and of the thread calling stop()
  current_time,          \* local of start(): time sampled at the top of the iteration
  last_capture_time,
  last_motion_time,
  event_start_time,
  previous_frame,        \* NoFrame or the timestamp of the reference frame
  current_event_frames,  \* sequence of MotionFrame [ts, bbox, crop]
  motion_frame,          \* local of start(): the MotionFrame about to be appended
  iter,                  \* per thread: index of the list iterator of the flush
  exitReason,            \* why start() returned
  \* effects on the collaborators
  metaFiles,             \* timestamps whose metadata sidecar was written
  dbRows,                \* timestamps passed to db.insert_detection
  alertCount,            \* calls of _trigger_telegram_alert
  \* history of the aggregator
  episode,               \* timestamps appended since the buffer was last cleared
  saved,                 \* buffered timestamps already passed to _save_frame_data
  flushStarted,          \* flushes that found the buffer non-empty
  cur,                   \* per thread: the flush in progress
  lastFlush,             \* the flush completed last
  stopPending,           \* buffered when stop() was called, not saved and not evicted
  savedTwice,            \* timestamps passed to _save_frame_data more than once
  clearedUnsaved,        \* timestamps cleared without ever being saved
  lastKind,              \* what the last iteration of the loop did with its frame
  \* frame functions (_compare_still_frames, stage 1 of the localization,
  \* _is_frame_corrupted) applied to given frames
  frame1,                \* a frame: [h |-> rows, row |-> pixels of every row]
  frame2,
  frame_comparison_threshold,  \* config.camera.frame_comparison_threshold, percent
  cmpOut,                \* what the function applied last computed
  \* AlertBuilder (src/gif_builder.py)
  n_frames,              \* len(frames) of the call; frame i is known by its index 0..n-1
  selected_frames,       \* source indices returned by _decimate_frames
  build_kind,            \* "none", "decimate", "gif" or "mp4"
  build_pc,              \* position inside build_mp4
  temp_frames_dir,       \* the scratch directory of the call exists
  scratch_files,         \* indices i whose frame_{i}.jpg exists in it
  frame_paths,           \* indices appended to frame_paths
  build_result,          \* "none", "true" or "false": what the build returned
  artifact,              \* the output file was produced
  \* _template_tracking_comparison called on its own
  tmpl_bbox,             \* the previous_bbox argument of the call
  tmpl_out,              \* what the call did: inputs, result, raised
  \* _crop_motion_area / _create_high_res_crop
  crop_bbox,             \* the bbox argument of the call
  crop_out,              \* what the call did: inputs, crop rectangle, size returned
  \* VisionOrchestrator (src/turtlecam/vision/orchestrator.py)
  orch_now,              \* time.time()
  orch_running,          \* self.running
  orch_pc,               \* position of the processing thread
  motion_active,
  orch_last_motion_time, \* self.last_motion_time, -1 for None
  process_queue,         \* timestamps of the queued capture_crop tasks
  gif_count,             \* calls of _handle_motion_end
  \* RelayController (src/turtlecam/relay/controller.py)
  relay_now,             \* datetime.now(), in minutes
  relays,                \* relay name -> self.relays[name]["state"]
  manual_overrides,      \* relay name -> [state, until]; until = NoUntil for None
  sched_pc,              \* position of _schedule_loop inside its iteration
  relay_last,            \* the operation performed last
  check_iter,            \* _check_manual_overrides: its dict iterator and locals
  \* CropStore and GIFBuilder of the orchestrator (src/turtlecam/vision)
  detections,            \* ts of the rows of the detections table
  frame_buffer,          \* GIFBuilder.frame_buffer: the ts of the buffered crops
  last_gif,              \* the last _handle_motion_end that found crops
  \* TurtleCamBot.send_motion_alert (src/telegram_bot.py)
  tg_now,                \* time.time()
  alert_pc,              \* position of send_motion_alert
  alert_time,            \* its local current_time
  last_message_time,
  attempt,               \* the loop variable of the retry loop
  alert_file,            \* the file at output_path exists
  attempts,              \* history: send calls made for this alert
  sent_at,               \* history: the send call that succeeded, 0 for none
  \* EnvAlertMonitor (src/turtlecam/env_monitor/alerting.py)
  env_now,               \* datetime.now(), in minutes
  env_pc,                \* _monitoring_loop: "check" or "sleep"
  last_low_alert_time,   \* NoTime for None
  last_high_alert_time,
  consecutive_high_temp_readings,
  low_alerts,            \* times of the send_temperature_alert(t, "low") calls
  high_alerts,           \* times of the send_temperature_alert(t, "high") calls
  safety_calls,          \* times of the high_temp_safety_callback calls
  high_run,              \* readings above the threshold since the last reading not above it
  env_last               \* the last check: its reading and what it did

trackerVars == <<last_bbox, tracking_confidence, calls, failRun, lastBranch, lastResult>>

loopVars == <<now, running, pc, current_time, last_capture_time, last_motion_time,
              event_start_time, previous_frame, current_event_frames, motion_frame,
              iter, exitReason>>

effectVars == <<metaFiles, dbRows, alertCount>>

histVars == <<episode, saved, flushStarted, cur, lastFlush, stopPending, savedTwice,
              clearedUnsaved, lastKind>>

frameVars == <<frame1, frame2, frame_comparison_threshold, cmpOut>>

builderVars == <<n_frames, selected_frames, build_kind, build_pc, temp_frames_dir,
                 scratch_files, frame_paths, build_result, artifact>>

templateVars == <<tmpl_bbox, tmpl_out>>

cropVars == <<crop_bbox, crop_out>>

envVars == <<env_now, env_pc, last_low_alert_time, last_high_alert_time,
             consecutive_high_temp_readings, low_alerts, high_alerts, safety_calls,
             high_run, env_last>>

relayVars == <<relay_now, relays, manual_overrides, sched_pc, relay_last>>

checkVars == <<check_iter>>

gifVars == <<detections, frame_buffer, last_gif>>

telegramVars == <<tg_now, alert_pc, alert_time, last_message_time, attempt, alert_file,
                  attempts, sent_at>>

orchVars == <<orch_now, orch_running, orch_pc, motion_active, orch_last_motion_time,
              process_queue, gif_count>>

detectorVars == <<trackerVars, loopVars, effectVars, histVars>>

\* What the actions of one component leave alone.
notDetector == <<frameVars, builderVars, templateVars, cropVars, orchVars, relayVars, envVars, checkVars,
                gifVars, telegramVars>>
notFrames == <<detectorVars, builderVars, templateVars, cropVars, orchVars, relayVars, envVars, checkVars,
                gifVars, telegramVars>>
notBuilder == <<detectorVars, frameVars, templateVars, cropVars, orchVars, relayVars, envVars, checkVars,
                gifVars, telegramVars>>
notTemplate == <<detectorVars, frameVars, builderVars, cropVars, orchVars, relayVars, envVars, checkVars,
                gifVars, telegramVars>>
notCrop == <<detectorVars, frameVars, builderVars, templateVars, orchVars, relayVars, envVars, checkVars,
                gifVars, telegramVars>>
notOrchGif == <<detectorVars, frameVars, builderVars, templateVars, cropVars, relayVars, envVars, checkVars, telegramVars>>
notOrch == <<notOrchGif, gifVars>>
notRelayCheck == <<detectorVars, frameVars, builderVars, templateVars, cropVars, orchVars,
                   envVars, gifVars, telegramVars>>
notRelay == <<notRelayCheck, checkVars>>
notTelegram == <<detectorVars, frameVars, builderVars, templateVars, cropVars, orchVars,
                 relayVars, envVars, checkVars, gifVars>>
notEnv == <<detectorVars, frameVars, builderVars, templateVars, cropVars, orchVars, relayVars, checkVars,
                gifVars, telegramVars>>

vars == <<trackerVars, loopVars, effectVars, histVars, frameVars, builderVars,
          templateVars, cropVars, orchVars, relayVars, envVars, checkVars, gifVars,
          telegramVars>>

\* ------------------------------------------------------------- arithmetic
Max(a, b) == IF a >= b THEN a ELSE b
Min(a, b) == IF a <= b THEN a ELSE b

RECURSIVE GCD(_, _)
GCD(a, b) == IF b = 0 THEN a ELSE GCD(b, a % b)

Frac(n, d) == LET g == GCD(n, d) IN [n |-> n \div g, d |-> d \div g]
ConfZero == [n |-> 0, d |-> 1]
ConfOne == [n |-> 1, d |-> 1]
ConfLeq(a, b) == a.n * b.d <= b.n * a.d
ConfLess(a, b) == a.n * b.d < b.n * a.d
ConfFloor == [n |-> 3, d |-> 10]

\* Mutant: the decay factor is 0.9.
ConfDecaySlow(c) == Frac(9 * c.n, 10 * c.d)

\* self.tracking_confidence *= 0.8
ConfDecay(c) == Frac(4 * c.n, 5 * c.d)

\* Mutant: the raise is not capped.
ConfRaiseUncapped(c) == Frac(10 * c.n + c.d, 10 * c.d)

\* min(1.0, self.tracking_confidence + 0.1)
ConfRaise(c) ==
  IF 10 * c.n + c.d >= 10 * c.d THEN ConfOne ELSE Frac(10 * c.n + c.d, 10 * c.d)

\* 0.8 ^ k as a fraction.
RECURSIVE IntPow(_, _)
IntPow(b, k) == IF k = 0 THEN 1 ELSE b * IntPow(b, k - 1)
ConfPow(k) == [n |-> IntPow(4, k), d |-> IntPow(5, k)]

\* --------------------------------------------------------------- tracker
\* Results of the image comparison that track_turtle's helpers may return.
BBoxes == { <<120, 90, 60, 50>> }
LocResults == { <<FALSE, NoBBox>> } \cup { <<TRUE, b>> : b \in BBoxes }

\* int(alpha * new + (1 - alpha) * old) for alpha = 0.7.  In double
\* arithmetic the sum falls just short of the exact value in some of the
\* cases where 7*new + 3*old is a multiple of 10 (never when new = old);
\* short says whether it does.
SmoothComp(new, old, short) ==
  LET s == 7 * new + 3 * old
      q == s \div 10
  IN IF s % 10 = 0 /\ new # old /\ short /\ q > 0 THEN q - 1 ELSE q

_smooth_bbox(new_bbox, old_bbox, short) ==
  IF old_bbox = NoBBox THEN new_bbox
  ELSE << SmoothComp(new_bbox[1], old_bbox[1], short),
          SmoothComp(new_bbox[2], old_bbox[2], short),
          SmoothComp(new_bbox[3], old_bbox[3], short),
          SmoothComp(new_bbox[4], old_bbox[4], short) >>

\* Template and search rectangles of _template_tracking_comparison.
TemplateRect(b) ==
  [ x1 |-> Max(0, b[1] - TemplateMargin),
    y1 |-> Max(0, b[2] - TemplateMargin),
    x2 |-> Min(FrameW, b[1] + b[3] + TemplateMargin),
    y2 |-> Min(FrameH, b[2] + b[4] + TemplateMargin) ]

\* Mutant: the search area is not clipped to the frame.
SearchRectUnclipped(b) ==
  [ x1 |-> b[1] - SearchMargin,
    y1 |-> b[2] - SearchMargin,
    x2 |-> b[1] + b[3] + SearchMargin,
    y2 |-> b[2] + b[4] + SearchMargin ]

SearchRect(b) ==
  [ x1 |-> Max(0, b[1] - SearchMargin),
    y1 |-> Max(0, b[2] - SearchMargin),
    x2 |-> Min(FrameW, b[1] + b[3] + SearchMargin),
    y2 |-> Min(FrameH, b[2] + b[4] + SearchMargin) ]

RectW(r) == Max(0, r.x2 - r.x1)
RectH(r) == Max(0, r.y2 - r.y1)

\* Mutant: the check of the template's minimum size (line 151) is missing.
TemplateDegenerateNoMinSize(b, raises) ==
  LET t == TemplateRect(b)
      s == SearchRect(b)
  IN \/ RectW(t) = 0 \/ RectH(t) = 0
     \/ RectW(s) = 0 \/ RectH(s) = 0
     \/ raises

\* The template stage cannot run: template empty or under 10 px, search
\* area empty, or matchTemplate raising (template larger than the search
\* area, or any other cv2 error: raises).
TemplateDegenerate(b, raises) ==
  LET t == TemplateRect(b)
      s == SearchRect(b)
  IN \/ RectW(t) = 0 \/ RectH(t) = 0
     \/ RectH(t) < MinTemplate \/ RectW(t) < MinTemplate
     \/ RectW(s) = 0 \/ RectH(s) = 0
     \/ RectW(t) > RectW(s) \/ RectH(t) > RectH(s)
     \/ raises

\* Positions max_loc that minMaxLoc may report, relative to the search area.
\* The first is where the template was cut from (the subject did not move).
MaxLocs(b) ==
  LET t == TemplateRect(b)
      s == SearchRect(b)
  IN { <<t.x1 - s.x1, t.y1 - s.y1>>,
       <<RectW(s) - RectW(t), RectH(s) - RectH(t)>> }

\* An input of one track_turtle call in the Locked state:
\*   good    max_val > 0.6
\*   loc     max_loc
\*   raises  matchTemplate raised
\*   fb      what the fallback _turtle_localization_comparison returns
\*   short   the double rounding of _smooth_bbox
TemplateInputs(b) ==
  [ good : BOOLEAN, loc : MaxLocs(b), raises : BOOLEAN, fb : LocResults,
    short : BOOLEAN ]

_template_tracking_comparison(previous_bbox, in) ==
  IF previous_bbox = NoBBox THEN in.fb
  ELSE IF TemplateDegenerate(previous_bbox, in.raises) THEN in.fb
  ELSE IF in.good
       THEN << TRUE, << SearchRect(previous_bbox).x1 + in.loc[1],
                        SearchRect(previous_bbox).y1 + in.loc[2],
                        previous_bbox[3], previous_bbox[4] >> >>
       ELSE in.fb

\* track_turtle as a function of the tracker state and the inputs; the
\* result carries the return value and the new tracker state.
\* Mutant: the lock is acquired with the confidence left as it was.
TrackNoLockKeepsConfidence(loc) ==
  [ has_motion |-> loc[1], bbox |-> loc[2],
    last_bbox |-> IF loc[1] THEN loc[2] ELSE last_bbox,
    conf |-> tracking_confidence,
    branch |-> "nolock" ]

\* Mutant: without a lock the call reports motion whatever the
\* localization found.
TrackNoLockAlwaysMotion(loc) ==
  [ has_motion |-> TRUE, bbox |-> loc[2],
    last_bbox |-> IF loc[1] THEN loc[2] ELSE last_bbox,
    conf |-> IF loc[1] THEN ConfOne ELSE tracking_confidence,
    branch |-> "nolock" ]

TrackNoLock(loc) ==
  [ has_motion |-> loc[1], bbox |-> loc[2],
    last_bbox |-> IF loc[1] THEN loc[2] ELSE last_bbox,
    conf |-> IF loc[1] THEN ConfOne ELSE tracking_confidence,
    branch |-> "nolock" ]

\* Which stage produced the result of _template_tracking_comparison:
\* "template" (score above 0.6, line 170), "fallback" (the template ran and
\* its score was not above 0.6, line 178) or "relocalized" (the template
\* stage could not run, lines 152, 164, 182).
TemplateStage(previous_bbox, in) ==
  IF TemplateDegenerate(previous_bbox, in.raises) THEN "relocalized"
  ELSE IF in.good THEN "template" ELSE "fallback"

\* The branch names of a call with a lock: "matched" (template accepted),
\* "fallback" / "relocalized" (the comparison returned the bbox of
\* _turtle_localization_comparison; track_turtle treats it as a match,
\* line 62) and "failed" (lines 70-76).
TrackLocked(in) ==
  LET r == _template_tracking_comparison(last_bbox, in)
      c == ConfDecay(tracking_confidence)
      stage == TemplateStage(last_bbox, in)
  IN IF r[1] /\ r[2] # NoBBox
     THEN LET sm == _smooth_bbox(r[2], last_bbox, in.short)
          IN [ has_motion |-> TRUE, bbox |-> sm, last_bbox |-> sm,
               conf |-> ConfRaise(tracking_confidence),
               branch |-> IF stage = "template" THEN "matched" ELSE stage ]
     ELSE LET nb == IF ConfLess(c, ConfFloor) THEN NoBBox ELSE last_bbox
          IN [ has_motion |-> FALSE, bbox |-> nb, last_bbox |-> nb,
               conf |-> c, branch |-> "failed" ]

\* History: the number of consecutive failed calls since the tracker held a
\* lock with confidence exactly 1.0 (-1 when not in such a run).
NextFailRun(res) ==
  IF res.branch = "failed"
  THEN IF failRun >= 0 THEN failRun + 1 ELSE -1
  ELSE IF res.last_bbox # NoBBox /\ res.conf = ConfOne THEN 0 ELSE -1

ApplyTrack(res) ==
  /\ last_bbox' = res.last_bbox
  /\ tracking_confidence' = res.conf
  /\ lastBranch' = res.branch
  /\ lastResult' = <<res.has_motion, res.bbox>>
  /\ failRun' = NextFailRun(res)

InitTracker ==
  /\ last_bbox = NoBBox
  /\ tracking_confidence = ConfZero
  /\ calls = 0
  /\ failRun = -1
  /\ lastBranch = "none"
  /\ lastResult = <<FALSE, NoBBox>>

\* One call of track_turtle without a lock (lines 49-56).
TrackInitial ==
  /\ calls < MaxCalls
  /\ last_bbox = NoBBox
  /\ \E loc \in LocResults : ApplyTrack(TrackNoLock(loc))
  /\ calls' = calls + 1
  /\ UNCHANGED <<loopVars, effectVars, histVars>>
  /\ UNCHANGED notDetector

\* One call of track_turtle with a lock (lines 58-76).
TrackWithLock ==
  /\ calls < MaxCalls
  /\ last_bbox # NoBBox
  /\ \E in \in TemplateInputs(last_bbox) : ApplyTrack(TrackLocked(in))
  /\ calls' = calls + 1
  /\ UNCHANGED <<loopVars, effectVars, histVars>>
  /\ UNCHANGED notDetector

\* ------------------------------------------- template comparison alone
\* previous_bbox values handed to _template_tracking_comparison: inside the
\* frame, at its right and lower edges, and beyond them, where the template
\* cut (lines 142-147) is narrower than 10 px or empty and the search area
\* (lines 154-159) is empty.  Coordinates are not negative.
TemplateBoxes ==
  { <<x, y, wh[1], wh[2]>> :
      x \in {120, FrameW - 60, FrameW + 15, FrameW + TemplateMargin, FrameW + SearchMargin},
      y \in {90, FrameH - 50, FrameH + 15, FrameH + SearchMargin},
      wh \in {<<60, 50>>, <<0, 0>>} }

NoTemplateOut == [ran |-> FALSE, in |-> <<>>, result |-> <<FALSE, NoBBox>>, raised |-> FALSE]

InitTemplateVars ==
  /\ tmpl_bbox = NoBBox
  /\ tmpl_out = NoTemplateOut

\* One call of _template_tracking_comparison(frame1, frame2, tmpl_bbox).
\* Every statement of the method is inside its try (line 135); the handler
\* (lines 180-182) calls the localization, which has a try of its own
\* (lines 80, 129-131), so nothing propagates.
TemplateCompare ==
  /\ tmpl_bbox # NoBBox
  /\ ~tmpl_out.ran
  /\ \E in \in TemplateInputs(tmpl_bbox) :
       tmpl_out' = [ran |-> TRUE, in |-> in,
                    result |-> _template_tracking_comparison(tmpl_bbox, in),
                    raised |-> FALSE]
  /\ UNCHANGED tmpl_bbox
  /\ UNCHANGED notTemplate

\* ------------------------------------------------------------- crops
\* Boxes inside the frame handed to _crop_motion_area: in the interior, in
\* the corners and along the edges, small, wide and large.
CropBoxes ==
  { <<x, y, wh[1], wh[2]>> :
      wh \in {<<60, 50>>, <<301, 50>>, <<250, 220>>},
      x \in {0, 40, 99, FrameW - 301, FrameW - 250, FrameW - 60},
      y \in {0, 30, FrameH - 220, FrameH - 50} } \cap
  { b \in (0..FrameW) \X (0..FrameH) \X (0..FrameW) \X (0..FrameH) :
      b[1] + b[3] <= FrameW /\ b[2] + b[4] <= FrameH }

NoCropOut ==
  [by |-> "none", fault |-> FALSE, short |-> FALSE,
   rect |-> [x1 |-> 0, y1 |-> 0, x2 |-> 0, y2 |-> 0], size |-> <<0, 0>>]

InitCropVars ==
  /\ crop_bbox = NoBBox
  /\ crop_out = NoCropOut

\* Lines 387-399: the crop is smaller than min_crop_size in a dimension and
\* is replaced by a square around the centre of the box, clamped to the
\* frame.
CropRecentered(b, crop_w, crop_h) ==
  LET center_x == b[1] + b[3] \div 2
      center_y == b[2] + b[4] \div 2
      half_size == Max(MinCropSize \div 2, Max(crop_w, crop_h) \div 2)
  IN [ x1 |-> Max(0, center_x - half_size),
       y1 |-> Max(0, center_y - half_size),
       x2 |-> Min(FrameW, center_x + half_size),
       y2 |-> Min(FrameH, center_y + half_size) ]

\* Lines 408-415: the centre crop returned by the except branch.
CropFallback ==
  LET center_x == FrameW \div 2
      center_y == FrameH \div 2
      crop_size == Min(FrameW, FrameH) \div 2
  IN [ x1 |-> center_x - crop_size \div 2,
       y1 |-> center_y - crop_size \div 2,
       x2 |-> center_x + crop_size \div 2,
       y2 |-> center_y + crop_size \div 2 ]

\* _crop_motion_area (lines 370-415): the rectangle cut from the frame.
\* fault: a statement of the try block raised.
_crop_motion_area(b, fault) ==
  LET r == [ x1 |-> Max(0, b[1] - crop_margin),
             y1 |-> Max(0, b[2] - crop_margin),
             x2 |-> Min(FrameW, b[1] + b[3] + crop_margin),
             y2 |-> Min(FrameH, b[2] + b[4] + crop_margin) ]
      crop_w == r.x2 - r.x1
      crop_h == r.y2 - r.y1
  IN IF fault THEN CropFallback
     ELSE IF crop_w < MinCropSize \/ crop_h < MinCropSize
          THEN CropRecentered(b, crop_w, crop_h)
          ELSE r

\* Lines 422-426: the size after the optional downscale.  scale_factor is a
\* double: int(v * scale_factor) is one less than the exact quotient in
\* some of the cases where the quotient is an integer (short).
DownscaleComp(v, width, short) ==
  LET q == (v * alert_downscale_width) \div width
  IN IF (v * alert_downscale_width) % width = 0 /\ short /\ q > 0 THEN q - 1 ELSE q

_create_high_res_crop(b, fault, short) ==
  LET r == _crop_motion_area(b, fault)
      w == r.x2 - r.x1
      h == r.y2 - r.y1
  IN IF w > alert_downscale_width
     THEN <<DownscaleComp(w, w, short), DownscaleComp(h, w, short)>>
     ELSE <<w, h>>

\* One call of _crop_motion_area(frame, crop_bbox).
CropMotionArea ==
  /\ crop_bbox # NoBBox
  /\ crop_out.by = "none"
  /\ \E fault \in BOOLEAN :
       LET r == _crop_motion_area(crop_bbox, fault)
       IN crop_out' = [by |-> "crop", fault |-> fault, short |-> FALSE, rect |-> r,
                       size |-> <<r.x2 - r.x1, r.y2 - r.y1>>]
  /\ UNCHANGED crop_bbox
  /\ UNCHANGED notCrop

\* One call of _create_high_res_crop(frame, crop_bbox).
CreateHighResCrop ==
  /\ crop_bbox # NoBBox
  /\ crop_out.by = "none"
  /\ \E fault \in BOOLEAN, short \in BOOLEAN :
       crop_out' = [by |-> "high_res", fault |-> fault, short |-> short,
                    rect |-> _crop_motion_area(crop_bbox, fault),
                    size |-> _create_high_res_crop(crop_bbox, fault, short)]
  /\ UNCHANGED crop_bbox
  /\ UNCHANGED notCrop

\* ------------------------------------------------- VisionOrchestrator
\* __init__ (lines 42-61): not running, no motion, an empty queue.
\* A _handle_motion_end: the builder's buffer it found, the crops it
\* fetched, the buffer handed to create_gif and whether a GIF was written.
NoGif == [before |-> <<>>, fetched |-> <<>>, frames |-> <<>>, created |-> FALSE]

\* The elements of a set of timestamps, newest first (ORDER BY ts DESC).
RECURSIVE Descending(_)
Descending(S) ==
  IF S = {} THEN <<>>
  ELSE LET m == CHOOSE x \in S : \A y \in S : y <= x
       IN <<m>> \o Descending(S \ {m})

\* CropStore.get_latest_crops (crop_store.py, lines 146-184).
get_latest_crops(rows, limit) ==
  LET d == Descending(rows) IN SubSeq(d, 1, Min(limit, Len(d)))

\* GIFBuilder.add_frame (vision/gif_builder.py, lines 49-83).
add_frame(buf, f) ==
  LET b == Append(buf, f) IN IF Len(b) > gif_max_frames THEN Tail(b) ELSE b

\* The for loop of _handle_motion_end, lines 244-249.
RECURSIVE AddFrames(_, _)
AddFrames(buf, crops) ==
  IF crops = <<>> THEN buf
  ELSE AddFrames(add_frame(buf, Head(crops)), Tail(crops))

InitOrchVars ==
  /\ detections = {}
  /\ frame_buffer = <<>>
  /\ last_gif = NoGif
  /\ orch_now = 0
  /\ orch_running = FALSE
  /\ orch_pc = "idle"
  /\ motion_active = FALSE
  /\ orch_last_motion_time = -1
  /\ process_queue = <<>>
  /\ gif_count = 0

OrchTick ==
  /\ orch_now < OrchMaxTime
  /\ orch_now' = orch_now + 1
  /\ UNCHANGED <<orch_running, orch_pc, motion_active, orch_last_motion_time,
                 process_queue, gif_count>>
  /\ UNCHANGED notOrch

\* start() (lines 122-138): running is set and the processing thread begins.
OrchStart ==
  /\ ~orch_running
  /\ orch_pc = "idle"
  /\ orch_running' = TRUE
  /\ orch_pc' = "top"
  /\ UNCHANGED <<orch_now, motion_active, orch_last_motion_time, process_queue, gif_count>>
  /\ UNCHANGED notOrch

\* stop() (lines 140-155): running is cleared; the join gives up after 5 s.
OrchStop ==
  /\ orch_running
  /\ orch_running' = FALSE
  /\ UNCHANGED <<orch_now, orch_pc, motion_active, orch_last_motion_time,
                 process_queue, gif_count>>
  /\ UNCHANGED notOrch

\* while self.running is false (line 162): the loop ends.
OrchLoopExit ==
  /\ orch_pc = "top"
  /\ ~orch_running
  /\ orch_pc' = "exited"
  /\ UNCHANGED <<orch_now, orch_running, motion_active, orch_last_motion_time,
                 process_queue, gif_count>>
  /\ UNCHANGED notOrch

\* Lines 164-168: no frame available; sleep and go to the next iteration.
\* Lines 170-192 with no motion and no timeout end the same way.
OrchIdle ==
  /\ orch_pc = "top"
  /\ orch_running
  /\ ~(motion_active /\ orch_last_motion_time >= 0
         /\ orch_now - orch_last_motion_time >= orch_inactivity_timeout)
  /\ UNCHANGED orchVars
  /\ UNCHANGED notOrch

\* Lines 186-192 and _handle_motion_end (lines 231-260): no motion for
\* inactivity_timeout; the event ends and a GIF is built.
\* Lines 237-253: the latest crops are added to the builder's buffer and
\* create_gif builds from the buffer; ok says that it wrote the file.
\* Nothing between two calls clears the buffer.
MotionEndGif ==
  LET latest_crops == get_latest_crops(detections, gif_max_frames)
  IN /\ IF latest_crops = <<>>
        THEN UNCHANGED <<frame_buffer, last_gif>>
        ELSE /\ frame_buffer' = AddFrames(frame_buffer, latest_crops)
             /\ \E ok \in BOOLEAN :
                  last_gif' = [ before |-> frame_buffer,
                                fetched |-> latest_crops,
                                frames |-> frame_buffer',
                                created |-> ok ]
     /\ UNCHANGED detections

\* Mutant: the handler leaves motion_active set.
OrchMotionEndStaysActive ==
  /\ orch_pc = "top"
  /\ orch_running
  /\ motion_active
  /\ orch_last_motion_time >= 0
  /\ orch_now - orch_last_motion_time >= orch_inactivity_timeout
  /\ gif_count' = gif_count + 1
  /\ MotionEndGif
  /\ UNCHANGED <<orch_now, orch_running, orch_pc, orch_last_motion_time, process_queue,
                 motion_active>>
  /\ UNCHANGED notOrchGif

OrchMotionEnd ==
  /\ orch_pc = "top"
  /\ orch_running
  /\ motion_active
  /\ orch_last_motion_time >= 0
  /\ orch_now - orch_last_motion_time >= orch_inactivity_timeout
  /\ motion_active' = FALSE
  /\ gif_count' = gif_count + 1
  /\ MotionEndGif
  /\ UNCHANGED <<orch_now, orch_running, orch_pc, orch_last_motion_time, process_queue>>
  /\ UNCHANGED notOrchGif

\* CropStore.save_crop (crop_store.py, lines 76-123) called for a crop
\* taken now: a row with its timestamp is inserted.
SaveCrop ==
  /\ Cardinality(detections) < MaxCrops
  /\ orch_now \notin detections
  /\ detections' = detections \cup {orch_now}
  /\ UNCHANGED <<frame_buffer, last_gif>>
  /\ UNCHANGED orchVars
  /\ UNCHANGED notOrchGif

\* Lines 174-184: motion detected; the state is updated and
\* _handle_motion_detection is entered.
OrchMotion ==
  /\ orch_pc = "top"
  /\ orch_running
  /\ orch_last_motion_time' = orch_now
  /\ motion_active' = TRUE
  /\ orch_pc' = "put"
  /\ UNCHANGED <<orch_now, orch_running, process_queue, gif_count>>
  /\ UNCHANGED notOrch

\* _handle_motion_detection (lines 207-229): process_queue.put(task) with
\* the default block=True, timeout=None returns once the queue has a free
\* slot.  Nothing in the repository takes tasks from process_queue.
OrchPut ==
  /\ orch_pc = "put"
  /\ Len(process_queue) < QueueMax
  /\ process_queue' = Append(process_queue, orch_now)
  /\ orch_pc' = "top"
  /\ UNCHANGED <<orch_now, orch_running, motion_active, orch_last_motion_time, gif_count>>
  /\ UNCHANGED notOrch

\* Lines 216-217, 228-229: get_crop_path raises; the handler logs and
\* returns without queueing.
OrchPutFault ==
  /\ orch_pc = "put"
  /\ orch_pc' = "top"
  /\ UNCHANGED <<orch_now, orch_running, motion_active, orch_last_motion_time,
                 process_queue, gif_count>>
  /\ UNCHANGED notOrch

\* Lines 164, 171, 201-204: camera.get_frame or motion_detector.detect
\* raises; the except around the loop ends it.
OrchLoopFault ==
  /\ orch_pc = "top"
  /\ orch_running
  /\ orch_pc' = "exited"
  /\ UNCHANGED <<orch_now, orch_running, motion_active, orch_last_motion_time,
                 process_queue, gif_count>>
  /\ UNCHANGED notOrch

\* ---------------------------------------------------- RelayController
\* The relays of the configuration (config.get('relays'), lines 84-98).
Relays == {"uv_heat", "fan"}
NoUntil == -1
\* config.telegram.max_retries and rate_limit_delay (config.py:50-51).
max_retries == 3
rate_limit_delay == 2
AllOff == [r \in Relays |-> FALSE]
\* An operation: its kind and arguments, and for handle_high_temperature
\* the relay states it found.
RelayOp(op, r, state, d) ==
  [op |-> op, relay |-> r, state |-> state, duration |-> d, before |-> AllOff]
NoRelayOp == RelayOp("none", "none", FALSE, 0)

\* The locals of _check_manual_overrides: now (line 262), the size the dict
\* iterator of line 266 recorded when it was created, the keys it has
\* yielded, and the list expired.
NoIter == [at |-> 0, used |-> 0, seen |-> {}, expired |-> {}]

\* __init__ and _load_config: every relay starts in its initial_state, no
\* override is recorded.
InitRelayVars ==
  /\ relay_now = 0
  /\ relays = AllOff
  /\ manual_overrides = << >>
  /\ sched_pc = "run"
  /\ relay_last = NoRelayOp
  /\ check_iter = NoIter

\* The override table with the entry of r set or removed.
PutOverride(table, r, entry) ==
  [x \in DOMAIN table \cup {r} |-> IF x = r THEN entry ELSE table[x]]
PopOverride(table, r) ==
  [x \in DOMAIN table \ {r} |-> table[x]]

\* set_relay (lines 277-329) on the relay states st and the override table,
\* at time t: the new states and table.  A duration of 0 (or None) is an
\* indefinite override (line 308).
SetRelay(st, table, r, state, manual, duration_minutes, t) ==
  [ relays |-> [st EXCEPT ![r] = state],
    manual_overrides |->
      IF manual
      THEN IF duration_minutes # 0
           THEN PutOverride(table, r, [state |-> state, until |-> t + duration_minutes])
           ELSE PutOverride(table, r, [state |-> state, until |-> NoUntil])
      ELSE PopOverride(table, r) ]

RelayTick ==
  /\ relay_now < RelayMaxTime
  /\ relay_now' = relay_now + 1
  /\ UNCHANGED <<relays, manual_overrides, sched_pc, relay_last>>
  /\ UNCHANGED notRelay

\* set_relay(relay_name, state, manual=True, duration_minutes) called by a
\* user command.
SetRelayManual ==
  /\ \E r \in Relays, state \in BOOLEAN, d \in 0..MaxDuration :
       LET out == SetRelay(relays, manual_overrides, r, state, TRUE, d, relay_now)
       IN /\ relays' = out.relays
          /\ manual_overrides' = out.manual_overrides
          /\ relay_last' = RelayOp("manual", r, state, d)
  /\ UNCHANGED <<relay_now, sched_pc>>
  /\ UNCHANGED notRelay

\* _schedule_loop, line 251: scheduler.run_pending() finds no job due.
RunPendingNone ==
  /\ sched_pc = "run"
  /\ sched_pc' = "check"
  /\ relay_last' = NoRelayOp
  /\ UNCHANGED <<relay_now, relays, manual_overrides>>
  /\ UNCHANGED notRelay

\* _schedule_loop, line 251: a schedule entry is due and its job (line 177)
\* calls set_relay(relay_name, state, manual=False).
RunPendingJob ==
  /\ sched_pc = "run"
  /\ \E r \in Relays, state \in BOOLEAN :
       LET out == SetRelay(relays, manual_overrides, r, state, FALSE, 0, relay_now)
       IN /\ relays' = out.relays
          /\ manual_overrides' = out.manual_overrides
          /\ relay_last' = RelayOp("schedule", r, state, 0)
  /\ sched_pc' = "check"
  /\ UNCHANGED relay_now
  /\ UNCHANGED notRelay

\* Lines 265-268: the overrides found expired at time t.
Expired(table, t) ==
  { r \in DOMAIN table : table[r].until # NoUntil /\ t >= table[r].until }

\* _check_manual_overrides (lines 260-275), then the sleep of line 257.
CheckManualOverrides ==
  /\ sched_pc = "check"
  /\ manual_overrides' =
       [r \in DOMAIN manual_overrides \ Expired(manual_overrides, relay_now)
          |-> manual_overrides[r]]
  /\ sched_pc' = "run"
  /\ relay_last' = RelayOp("check", "none", FALSE, 0)
  /\ UNCHANGED <<relay_now, relays>>
  /\ UNCHANGED notRelay

\* Mutant: the fan is left as it is.
HandleFanSkipped(out) == out

\* Lines 411-413 on the result of the first set_relay.
HandleFan(out) ==
  IF "fan" \in Relays
  THEN SetRelay(out.relays, out.manual_overrides, "fan", TRUE, TRUE, SafetyMinutes, relay_now)
  ELSE out

\* handle_high_temperature (lines 396-413).
HandleHighTemperature ==
  /\ LET heat == IF "uv_heat" \in Relays
                 THEN SetRelay(relays, manual_overrides, "uv_heat", FALSE, TRUE,
                               SafetyMinutes, relay_now)
                 ELSE [relays |-> relays, manual_overrides |-> manual_overrides]
         out == HandleFan(heat)
     IN /\ relays' = out.relays
        /\ manual_overrides' = out.manual_overrides
  /\ relay_last' = [RelayOp("safety", "uv_heat", FALSE, SafetyMinutes)
                      EXCEPT !.before = relays]
  /\ UNCHANGED <<relay_now, sched_pc>>
  /\ UNCHANGED notRelay

\* _check_manual_overrides step by step.  It does not take self.lock, so a
\* set_relay of another thread (a bot command, the safety callback of the
\* monitor) can run between two steps of its loops.
\* Lines 262-268: now is read, the iteration starts and yields its first
\* item, if there is one.
CheckBegin ==
  /\ sched_pc = "check"
  /\ IF DOMAIN manual_overrides = {}
     THEN /\ check_iter' = [NoIter EXCEPT !.at = relay_now]
          /\ sched_pc' = "pop"
     ELSE /\ \E r \in DOMAIN manual_overrides :
               check_iter' =
                 [ at |-> relay_now,
                   used |-> Cardinality(DOMAIN manual_overrides),
                   seen |-> {r},
                   expired |-> {r} \cap Expired(manual_overrides, relay_now) ]
          /\ sched_pc' = "iter"
  /\ UNCHANGED <<relay_now, relays, manual_overrides, relay_last>>
  /\ UNCHANGED notRelayCheck

\* Line 266, the next item: the iterator raises RuntimeError when the dict
\* has changed size since it was created; nothing in
\* _check_manual_overrides catches it, the except of line 256 does, outside
\* the while loop, and the thread ends.
CheckNext ==
  /\ sched_pc = "iter"
  /\ IF Cardinality(DOMAIN manual_overrides) # check_iter.used
     THEN /\ sched_pc' = "ended"
          /\ UNCHANGED check_iter
     ELSE IF DOMAIN manual_overrides \subseteq check_iter.seen
     THEN /\ sched_pc' = "pop"
          /\ UNCHANGED check_iter
     ELSE /\ \E r \in DOMAIN manual_overrides \ check_iter.seen :
               check_iter' =
                 [ check_iter EXCEPT
                     !.seen = @ \cup {r},
                     !.expired = @ \cup ({r} \cap Expired(manual_overrides, check_iter.at)) ]
          /\ UNCHANGED sched_pc
  /\ UNCHANGED <<relay_now, relays, manual_overrides, relay_last>>
  /\ UNCHANGED notRelayCheck

\* Lines 271-273, then the sleep of line 257: the entries listed as expired
\* are popped; a pop of a missing key raises KeyError.
CheckPop ==
  /\ sched_pc = "pop"
  /\ IF check_iter.expired \subseteq DOMAIN manual_overrides
     THEN /\ manual_overrides' =
               [r \in DOMAIN manual_overrides \ check_iter.expired |-> manual_overrides[r]]
          /\ sched_pc' = "run"
     ELSE /\ sched_pc' = "ended"
          /\ UNCHANGED manual_overrides
  /\ check_iter' = NoIter
  /\ relay_last' = RelayOp("check", "none", FALSE, 0)
  /\ UNCHANGED <<relay_now, relays>>
  /\ UNCHANGED notRelayCheck

\* ---------------------------------------------------- EnvAlertMonitor
NoTime == -1
NoReading == -1
\* What sensor.get_temperature() may return: None, or a temperature below,
\* on, between and above the thresholds.
Temperatures ==
  {NoReading, temp_low_threshold - 1, temp_low_threshold, temp_high_threshold,
   temp_high_threshold + 1}

\* int(5 * 60 / self.check_interval), line 146.
readings_for_5min == SafetyPeriod \div check_interval

NoCheck == [temperature |-> NoReading, at |-> NoTime, low |-> FALSE, high |-> FALSE,
            safety |-> FALSE]

InitEnvVars ==
  /\ env_now = 0
  /\ env_pc = "check"
  /\ last_low_alert_time = NoTime
  /\ last_high_alert_time = NoTime
  /\ consecutive_high_temp_readings = 0
  /\ low_alerts = {}
  /\ high_alerts = {}
  /\ safety_calls = {}
  /\ high_run = 0
  /\ env_last = NoCheck

\* Mutant: the cooldown is not looked at.
CooldownIgnored(last, t) == TRUE

\* last is None or now - last > self.alert_cooldown (lines 119-120, 135-136).
CooldownPassed(last, t) == last = NoTime \/ t - last > alert_cooldown

\* Mutant: the counter is not reset after the safety action.
SafetyResetMissing(count) == count

\* Line 151: reset counter after safety action.
SafetyReset(count) == 0

\* _check_conditions (lines 102-153) for one reading.
EnvCheck ==
  /\ env_pc = "check"
  /\ env_pc' = "sleep"
  /\ \E temperature \in Temperatures :
       LET is_low == temperature # NoReading /\ temperature < temp_low_threshold
           is_high == temperature # NoReading /\ ~is_low
                      /\ temperature > temp_high_threshold
           alert_low == is_low /\ CooldownPassed(last_low_alert_time, env_now)
           alert_high == is_high /\ CooldownPassed(last_high_alert_time, env_now)
           count == consecutive_high_temp_readings + 1
           safety == is_high /\ count >= readings_for_5min
       IN /\ low_alerts' = IF alert_low THEN low_alerts \cup {env_now} ELSE low_alerts
          /\ last_low_alert_time' = IF alert_low THEN env_now ELSE last_low_alert_time
          /\ high_alerts' = IF alert_high THEN high_alerts \cup {env_now} ELSE high_alerts
          /\ last_high_alert_time' = IF alert_high THEN env_now ELSE last_high_alert_time
          /\ safety_calls' = IF safety THEN safety_calls \cup {env_now} ELSE safety_calls
          /\ consecutive_high_temp_readings' =
               IF temperature = NoReading THEN consecutive_high_temp_readings
               ELSE IF is_high THEN (IF safety THEN SafetyReset(count) ELSE count)
               ELSE 0
          /\ high_run' =
               IF temperature = NoReading THEN high_run
               ELSE IF temperature > temp_high_threshold THEN high_run + 1
               ELSE 0
          /\ env_last' = [temperature |-> temperature, at |-> env_now, low |-> alert_low,
                          high |-> alert_high, safety |-> safety]
  /\ UNCHANGED env_now
  /\ UNCHANGED notEnv

\* time.sleep(self.check_interval), line 94; the iteration may take longer.
EnvSleep ==
  /\ env_pc = "sleep"
  /\ \E late \in 0..1 :
       /\ env_now + check_interval + late <= EnvMaxTime
       /\ env_now' = env_now + check_interval + late
  /\ env_pc' = "check"
  /\ UNCHANGED <<last_low_alert_time, last_high_alert_time,
                 consecutive_high_temp_readings, low_alerts, high_alerts, safety_calls,
                 high_run, env_last>>
  /\ UNCHANGED notEnv

\* ------------------------------------------------------ bounding boxes
\* int(v * (num / den)) for v >= 0; the product is an integer only for v = 0
\* or where v * num is a multiple of den, and the double result is then
\* never above it.
ScaleComp(v, num, den) == (v * num) \div den

\* Lines 116-125 and 352-359: a rectangle of the reduced image scaled back
\* to full resolution, each component truncated on its own.
ScaleBBox(r, numX, denX, numY, denY) ==
  << ScaleComp(r[1], numX, denX), ScaleComp(r[2], numY, denY),
     ScaleComp(r[3], numX, denX), ScaleComp(r[4], numY, denY) >>

\* Rectangles cv2.boundingRect may report on the reduced image: in the
\* middle, in the top-left corner, against the bottom-right corner.
SmallRects == { <<96, 72, 48, 40>>, <<0, 0, 48, 40>>,
                <<comparison_width - 47, comparison_height - 39, 47, 39>> }

\* _turtle_localization_comparison (lines 78-131): found says whether a
\* turtle-sized contour was found, rect is its bounding rectangle on the
\* 320x240 image.
_turtle_localization_comparison(found, rect) ==
  IF found THEN << TRUE, ScaleBBox(rect, FrameW, LocW, FrameH, LocH) >>
  ELSE << FALSE, NoBBox >>

\* _compare_still_frames (lines 307-368): changed says whether the changed
\* share exceeded the threshold and a contour above min_blob_area exists.
_compare_still_frames(changed, rect) ==
  IF changed
  THEN << TRUE, ScaleBBox(rect, FrameW, comparison_width, FrameH, comparison_height) >>
  ELSE << FALSE, NoBBox >>

LocRects == { r \in SmallRects : r[1] + r[3] <= LocW /\ r[2] + r[4] <= LocH }
EdgeLocResults ==
  { _turtle_localization_comparison(FALSE, <<0, 0, 0, 0>>) }
    \cup { _turtle_localization_comparison(TRUE, r) : r \in LocRects }

\* max_loc at the corners of the result of matchTemplate, and where the
\* template was cut from.
CornerLocs(b) ==
  LET t == TemplateRect(b)
      s == SearchRect(b)
      dx == RectW(s) - RectW(t)
      dy == RectH(s) - RectH(t)
  IN { <<0, 0>>, <<dx, 0>>, <<0, dy>>, <<dx, dy>>, <<t.x1 - s.x1, t.y1 - s.y1>> }

EdgeInputs(b) ==
  [ good : BOOLEAN, loc : CornerLocs(b), raises : BOOLEAN, fb : EdgeLocResults,
    short : BOOLEAN ]

\* track_turtle without a lock, on a localization anywhere in the frame.
LocalizeInitial ==
  /\ calls < MaxBoxCalls
  /\ last_bbox = NoBBox
  /\ \E loc \in EdgeLocResults : ApplyTrack(TrackNoLock(loc))
  /\ calls' = calls + 1
  /\ UNCHANGED <<loopVars, effectVars, histVars>>
  /\ UNCHANGED notDetector

\* track_turtle with a lock, the match at any corner of the search area.
TrackAtEdges ==
  /\ calls < MaxBoxCalls
  /\ last_bbox # NoBBox
  /\ \E in \in EdgeInputs(last_bbox) : ApplyTrack(TrackLocked(in))
  /\ calls' = calls + 1
  /\ UNCHANGED <<loopVars, effectVars, histVars>>
  /\ UNCHANGED notDetector

\* One call of _compare_still_frames; it keeps no state.
CompareStill ==
  /\ \E changed \in BOOLEAN, rect \in SmallRects :
       lastResult' = _compare_still_frames(changed, rect)
  /\ lastBranch' = "compare"
  /\ UNCHANGED <<last_bbox, tracking_confidence, calls, failRun,
                 loopVars, effectVars, histVars>>
  /\ UNCHANGED notDetector

\* ------------------------------------------------------ frame functions
\* A frame is h identical rows of gray pixels; what the functions below
\* compute (shares of pixels, means) is the same for one row as for h.
Pixels == {0, 20, 200}
Rows == [1..RowLen -> Pixels]
CmpFrames == { [h |-> 1, row |-> r] : r \in Rows }
Thresholds == {0, 50}
BlankFrame == [h |-> 1, row |-> [i \in 1..RowLen |-> 0]]
NoOut == [by |-> "none", raised |-> FALSE, changed |-> 0, total |-> 0,
          result |-> <<FALSE, NoBBox>>]

RECURSIVE SumSeq(_)
SumSeq(q) == IF q = <<>> THEN 0 ELSE Head(q) + SumSeq(Tail(q))

\* cv2.resize(..., INTER_NEAREST): pixel i of the result is the source pixel
\* at floor(i * len / n), counting from 0.
Resize(row, n) == [i \in 1..n |-> row[((i - 1) * Len(row)) \div n + 1]]

\* cv2.absdiff
AbsDiff(r1, r2) ==
  [i \in 1..Len(r1) |-> IF r1[i] >= r2[i] THEN r1[i] - r2[i] ELSE r2[i] - r1[i]]

\* Mutant: THRESH_BINARY_INV.
BinaryInv(d) == [i \in 1..Len(d) |-> IF d[i] > DiffThreshold THEN 0 ELSE MaskOn]

\* cv2.threshold(diff, 25, 255, cv2.THRESH_BINARY)
Binary(d) == [i \in 1..Len(d) |-> IF d[i] > DiffThreshold THEN MaskOn ELSE 0]

\* Morphology on a row; outside the row the border does not constrain an
\* erosion and does not feed a dilation.
Window(i, n) == { j \in 1..n : j - i <= KernelR /\ i - j <= KernelR }
Erode(m) ==
  [i \in 1..Len(m) |-> IF \A j \in Window(i, Len(m)) : m[j] # 0 THEN MaskOn ELSE 0]
Dilate(m) ==
  [i \in 1..Len(m) |-> IF \E j \in Window(i, Len(m)) : m[j] # 0 THEN MaskOn ELSE 0]
MorphOpen(m) == Dilate(Erode(m))
MorphClose(m) == Erode(Dilate(m))

CountNonZero(m) == Cardinality({ i \in 1..Len(m) : m[i] # 0 })

\* Lines 314-334: the mask of changed pixels and its count.
ChangedPixels(f1, f2) ==
  CountNonZero(MorphClose(MorphOpen(Binary(
    AbsDiff(Resize(f1.row, CmpLen), Resize(f2.row, CmpLen))))))

\* Line 340: change_percentage > threshold, with
\* change_percentage = changed / total * 100.
ExceedsThreshold(changed, total, threshold) == changed * 100 > threshold * total

\* Lines 82-86: the difference of the tiny frames and the test of its mean.
TinyDiff(f1, f2) == AbsDiff(Resize(f1.row, TinyLen), Resize(f2.row, TinyLen))
NoTinyMotion(d) == SumSeq(d) < MeanFloor * Len(d)

\* Frames for the corruption filter: ramps and rows alternating between two
\* intensities, of 1, StripeRows and StripeRows + 1 rows, and the missing
\* (None or empty) frame.
Ramp(start, step) == [i \in 1..FilterLen |-> Min(MaxPixel, start + step * (i - 1))]
Alternating(lo, hi) == [i \in 1..FilterLen |-> IF i % 2 = 1 THEN lo ELSE hi]
FilterRows ==
  { Ramp(20, 20), Ramp(0, 1), Ramp(0, 0), Ramp(MaxPixel, 0), Ramp(128, 0) }
    \cup { Alternating(p[1], p[2]) :
             p \in { <<0, 8>>, <<247, 255>>, <<0, 255>>, <<100, 140>>,
                     <<0, 10>>, <<245, 255>>, <<127, 129>>, <<28, 228>> } }
MissingFrame == [h |-> 0, row |-> <<>>]
FilterFrames ==
  { [h |-> n, row |-> r] : n \in {1, StripeRows, StripeRows + 1}, r \in FilterRows }
    \cup { MissingFrame }

\* frame is None or frame.size == 0
IsMissing(f) == f.h = 0 \/ Len(f.row) = 0

\* np.mean and np.std of a frame of identical rows are those of one row;
\* they are compared without division: mean < k as sum < k * n, and
\* std < k as n * sum of squares - sum^2 < k^2 * n^2.
SqSum(r) == SumSeq([i \in 1..Len(r) |-> r[i] * r[i]])
Spread(r) == Len(r) * SqSum(r) - SumSeq(r) * SumSeq(r)
MeanBelow(r, k) == SumSeq(r) < k * Len(r)
MeanAbove(r, k) == SumSeq(r) > k * Len(r)
StdBelow(r, k) == Spread(r) < k * k * Len(r) * Len(r)
StdAbove(r, k) == Spread(r) > k * k * Len(r) * Len(r)

\* Mutant: the stripe test also runs on frames of exactly 100 rows.
StripeCheckedFrom100(f) == f.h >= StripeRows

\* if frame.shape[0] > 100, line 286
StripeChecked(f) == f.h > StripeRows

\* len(np.unique(row_sample)) of the middle row
UniqueValues(r) == Cardinality({ r[i] : i \in 1..Len(r) })

\* _is_frame_corrupted (lines 269-291)
_is_frame_corrupted(f) ==
  IF IsMissing(f) THEN TRUE
  ELSE IF MeanBelow(f.row, DarkMean) \/ MeanAbove(f.row, BrightMean) THEN TRUE
  ELSE IF StdBelow(f.row, UniformStd) \/ StdAbove(f.row, NoisyStd) THEN TRUE
  ELSE IF StripeChecked(f) /\ UniqueValues(f.row) < StripeValues THEN TRUE
  ELSE FALSE

InitFrameVars ==
  /\ frame1 = BlankFrame
  /\ frame2 = BlankFrame
  /\ frame_comparison_threshold = 0
  /\ cmpOut = NoOut

\* _compare_still_frames(frame1, frame2).  blob: a contour above
\* min_blob_area exists (only where pixels changed); raises: an exception
\* inside the try block (line 366).
CompareFrames ==
  /\ LET broken == IsMissing(frame1) \/ IsMissing(frame2)
         changed == IF broken THEN 0 ELSE ChangedPixels(frame1, frame2)
         exceeds == ExceedsThreshold(changed, CmpLen, frame_comparison_threshold)
     IN \E raises \in (IF broken THEN {TRUE} ELSE BOOLEAN), rect \in SmallRects,
           blob \in (IF changed > 0 THEN BOOLEAN ELSE {FALSE}) :
          cmpOut' = [ by |-> "compare", raised |-> raises,
                      changed |-> IF raises THEN 0 ELSE changed,
                      total |-> CmpLen,
                      result |-> IF raises THEN << FALSE, NoBBox >>
                                 ELSE _compare_still_frames(exceeds /\ blob, rect) ]
  /\ UNCHANGED <<frame1, frame2, frame_comparison_threshold>>
  /\ UNCHANGED notFrames

\* _turtle_localization_comparison(frame1, frame2).  found: a contour of
\* turtle size exists on the medium frames.
LocalizeFrames ==
  /\ LET broken == IsMissing(frame1) \/ IsMissing(frame2)
         d == IF broken THEN <<0>> ELSE TinyDiff(frame1, frame2)
     IN \E raises \in (IF broken THEN {TRUE} ELSE BOOLEAN), rect \in LocRects,
           found \in (IF SumSeq(d) > 0 THEN BOOLEAN ELSE {FALSE}) :
          cmpOut' = [ by |-> "localize", raised |-> raises,
                      changed |-> IF raises THEN 0 ELSE SumSeq(d),
                      total |-> TinyLen,
                      result |-> IF raises \/ NoTinyMotion(d) THEN << FALSE, NoBBox >>
                                 ELSE _turtle_localization_comparison(found, rect) ]
  /\ UNCHANGED <<frame1, frame2, frame_comparison_threshold>>
  /\ UNCHANGED notFrames

\* One call of _is_frame_corrupted(frame1).
CheckCorrupted ==
  /\ cmpOut' = [ by |-> "filter", raised |-> FALSE, changed |-> 0, total |-> 0,
                 result |-> << _is_frame_corrupted(frame1), NoBBox >> ]
  /\ UNCHANGED <<frame1, frame2, frame_comparison_threshold>>
  /\ UNCHANGED notFrames

\* ---------------------------------------------------------- alert builder
\* A frame list is known by its length n; its frames by their indices
\* 0..n-1.
SourceIndices(n) == [i \in 1..n |-> i - 1]

\* Mutant: a whole-number stride, index = i * (len // max_frames).
DecimateIndexStride(i, n, short) == i * (n \div max_frames)

\* Line 93: int(i * decimation) with decimation = len(frames) / max_frames
\* a double.  Where i * len is a multiple of max_frames and the quotient
\* len / max_frames is not exact, the product may fall just short of the
\* integer (short) and the index is one less.
DecimateIndex(i, n, short) ==
  LET q == (i * n) \div max_frames
  IN IF i > 0 /\ (i * n) % max_frames = 0 /\ n % max_frames # 0 /\ short
     THEN q - 1 ELSE q

\* _decimate_frames (lines 82-98); short is the set of loop indices whose
\* product falls short.
_decimate_frames(n, short) ==
  IF n <= max_frames THEN SourceIndices(n)
  ELSE LET index == [i \in 1..max_frames |-> DecimateIndex(i - 1, n, (i - 1) \in short)]
           InRange(x) == x < n
       IN SelectSeq(index, InRange)

\* Mutant: the guard against an empty frame list is missing.
NoFramesNever(n) == FALSE

\* if not frames (lines 103 and 143)
NoFrames(n) == n = 0

InitBuilderVars ==
  /\ selected_frames = <<>>
  /\ build_kind = "none"
  /\ build_pc = "idle"
  /\ temp_frames_dir = FALSE
  /\ scratch_files = {}
  /\ frame_paths = {}
  /\ build_result = "none"
  /\ artifact = FALSE

\* One call of _decimate_frames on its own.
Decimate ==
  /\ build_kind = "none"
  /\ \E short \in SUBSET (1..(max_frames - 1)) :
       selected_frames' = _decimate_frames(n_frames, short)
  /\ build_kind' = "decimate"
  /\ UNCHANGED <<n_frames, build_pc, temp_frames_dir, scratch_files, frame_paths,
                 build_result, artifact>>
  /\ UNCHANGED notBuilder

\* build_gif (lines 100-138).  fault: resizing, converting or saving
\* raised; with no image pil_images[0] raises IndexError.  Every exception
\* is caught at line 136.
BuildGif ==
  /\ build_kind = "none"
  /\ build_kind' = "gif"
  /\ build_pc' = "done"
  /\ IF NoFrames(n_frames)
     THEN /\ build_result' = "false"
          /\ UNCHANGED <<selected_frames, artifact>>
     ELSE \E short \in SUBSET (1..(max_frames - 1)), fault \in BOOLEAN :
            LET sel == _decimate_frames(n_frames, short)
                failed == fault \/ sel = <<>>
            IN /\ selected_frames' = sel
               /\ build_result' = IF failed THEN "false" ELSE "true"
               /\ artifact' = ~failed
  /\ UNCHANGED <<n_frames, temp_frames_dir, scratch_files, frame_paths>>
  /\ UNCHANGED notBuilder

\* build_mp4, lines 142-152: the guard, the decimation and the scratch
\* directory; fault: mkdir raised (caught at line 196).
Mp4Begin ==
  /\ build_kind = "none"
  /\ build_kind' = "mp4"
  /\ IF NoFrames(n_frames)
     THEN /\ build_result' = "false"
          /\ build_pc' = "done"
          /\ UNCHANGED <<selected_frames, temp_frames_dir>>
     ELSE \E short \in SUBSET (1..(max_frames - 1)), fault \in BOOLEAN :
            /\ selected_frames' = _decimate_frames(n_frames, short)
            /\ temp_frames_dir' = ~fault
            /\ build_result' = IF fault THEN "false" ELSE "none"
            /\ build_pc' = IF fault THEN "done" ELSE "write"
  /\ UNCHANGED <<n_frames, scratch_files, frame_paths, artifact>>
  /\ UNCHANGED notBuilder

\* Lines 156-166: one turn of the loop that writes frame_{i}.jpg.  fault:
\* _resize_frame, cvtColor or imwrite raised; the exception is caught at
\* line 196, which returns False.
Mp4WriteFrame ==
  /\ build_pc = "write"
  /\ Cardinality(frame_paths) < Len(selected_frames)
  /\ LET i == Cardinality(frame_paths) IN
     \E fault \in BOOLEAN :
       IF fault
       THEN /\ build_result' = "false"
            /\ build_pc' = "done"
            /\ UNCHANGED <<scratch_files, frame_paths>>
       ELSE /\ scratch_files' = scratch_files \cup {i}
            /\ frame_paths' = frame_paths \cup {i}
            /\ UNCHANGED <<build_result, build_pc>>
  /\ UNCHANGED <<n_frames, selected_frames, build_kind, temp_frames_dir, artifact>>
  /\ UNCHANGED notBuilder

\* What subprocess.run(ffmpeg_cmd) does: exit 0, another exit code, or an
\* exception (ffmpeg not installed).
EncoderResults == {"ok", "nonzero", "exception"}

\* Lines 168-198: the encoder runs; after it returned, the frame files are
\* unlinked and the directory removed (lines 190-192); when it raised, line
\* 196 returns False at once.
Mp4Encode ==
  /\ build_pc = "write"
  /\ Cardinality(frame_paths) = Len(selected_frames)
  /\ \E result \in EncoderResults :
       /\ build_result' = IF result = "ok" THEN "true" ELSE "false"
       /\ artifact' = (result = "ok")
       /\ IF result = "exception"
          THEN UNCHANGED <<scratch_files, temp_frames_dir>>
          ELSE /\ scratch_files' = scratch_files \ frame_paths
               /\ temp_frames_dir' = FALSE
  /\ build_pc' = "done"
  /\ UNCHANGED <<n_frames, selected_frames, build_kind, frame_paths>>
  /\ UNCHANGED notBuilder

\* ------------------------------------------------------------ aggregator
Threads == {"loop", "stop"}
MaxNow == BootTime + MaxTime

EmptyFlush ==
  [by |-> "none", start |-> <<>>, motion |-> <<>>, passed |-> <<>>, crops |-> {},
   written |-> {},
   failed |-> {}, alert |-> "none", at |-> 0, clean |-> TRUE]

InitDetector ==
  /\ now = BootTime
  /\ running = FALSE
  /\ pc = [t \in Threads |-> IF t = "loop" THEN "init" ELSE "idle"]
  /\ current_time = 0
  /\ last_capture_time = 0
  /\ last_motion_time = 0
  /\ event_start_time = 0
  /\ previous_frame = NoFrame
  /\ current_event_frames = <<>>
  /\ motion_frame = [ts |-> 0, bbox |-> NoBBox, crop |-> FALSE]
  /\ iter = [t \in Threads |-> 0]
  /\ exitReason = "none"
  /\ metaFiles = {}
  /\ dbRows = {}
  /\ alertCount = 0
  /\ episode = <<>>
  /\ saved = {}
  /\ flushStarted = 0
  /\ cur = [t \in Threads |-> EmptyFlush]
  /\ lastFlush = EmptyFlush
  /\ stopPending = {}
  /\ savedTwice = {}
  /\ clearedUnsaved = {}
  /\ lastKind = "none"

\* __init__ (telegram_bot.py:33): last_message_time = 0; the clock starts
\* later than rate_limit_delay.
InitTelegramVars ==
  /\ tg_now = rate_limit_delay
  /\ alert_pc = "idle"
  /\ alert_time = 0
  /\ last_message_time = 0
  /\ attempt = 0
  /\ alert_file = FALSE
  /\ attempts = 0
  /\ sent_at = 0

Init ==
  /\ InitTracker
  /\ InitDetector
  /\ InitFrameVars
  /\ n_frames = 0
  /\ InitBuilderVars
  /\ InitTemplateVars
  /\ InitCropVars
  /\ InitOrchVars
  /\ InitRelayVars
  /\ InitEnvVars
  /\ InitTelegramVars

\* _template_tracking_comparison is handed any box of TemplateBoxes.
InitTemplate ==
  /\ InitTracker
  /\ InitDetector
  /\ InitFrameVars
  /\ n_frames = 0
  /\ InitBuilderVars
  /\ tmpl_bbox \in TemplateBoxes
  /\ tmpl_out = NoTemplateOut
  /\ InitCropVars
  /\ InitOrchVars
  /\ InitRelayVars
  /\ InitEnvVars
  /\ InitTelegramVars

\* The crop functions are handed any box of CropBoxes.
InitCrop ==
  /\ InitTracker
  /\ InitDetector
  /\ InitFrameVars
  /\ n_frames = 0
  /\ InitBuilderVars
  /\ InitTemplateVars
  /\ crop_bbox \in CropBoxes
  /\ crop_out = NoCropOut
  /\ InitOrchVars
  /\ InitRelayVars
  /\ InitEnvVars
  /\ InitTelegramVars

\* The AlertBuilder is handed a frame list of any length up to MaxInput.
InitBuilder ==
  /\ InitTracker
  /\ InitDetector
  /\ InitFrameVars
  /\ n_frames \in 0..MaxInput
  /\ InitBuilderVars
  /\ InitTemplateVars
  /\ InitCropVars
  /\ InitOrchVars
  /\ InitRelayVars
  /\ InitEnvVars
  /\ InitTelegramVars

\* The frame functions are applied to any two frames and any threshold.
InitFrames ==
  /\ InitTracker
  /\ InitDetector
  /\ \/ frame1 \in CmpFrames /\ frame2 \in CmpFrames
     \/ frame1 \in FilterFrames /\ frame2 = frame1
  /\ frame_comparison_threshold \in Thresholds
  /\ cmpOut = NoOut
  /\ n_frames = 0
  /\ InitBuilderVars
  /\ InitTemplateVars
  /\ InitCropVars
  /\ InitOrchVars
  /\ InitRelayVars
  /\ InitEnvVars
  /\ InitTelegramVars

Timestamps(frames) == [i \in 1..Len(frames) |-> frames[i].ts]
Range(f) == { f[i] : i \in DOMAIN f }
LastN(q, n) == IF Len(q) <= n THEN q ELSE SubSeq(q, Len(q) - n + 1, Len(q))

\* An exception leaving the code of thread t: start() catches it around the
\* whole loop and returns (lines 632-637); stop() lets it reach its caller.
Raise(t, reason) ==
  /\ pc' = [pc EXCEPT ![t] = IF t = "loop" THEN "exited" ELSE "raised"]
  /\ exitReason' = IF t = "loop" THEN reason ELSE exitReason

\* The clock advances on its own.  time.time() is read only at the top of
\* an iteration (line 547), so the advance is taken there.
Tick ==
  /\ pc["loop"] = "top"
  /\ now < MaxNow
  /\ now' = now + 1
  /\ UNCHANGED <<trackerVars, running, pc, current_time, last_capture_time,
                 last_motion_time, event_start_time, previous_frame,
                 current_event_frames, motion_frame, iter, exitReason,
                 effectVars, histVars>>
  /\ UNCHANGED notDetector

\* start(), lines 533-544.
Start ==
  /\ pc["loop"] = "init"
  /\ ~running
  /\ running' = TRUE
  /\ pc' = [pc EXCEPT !["loop"] = "top"]
  /\ UNCHANGED <<trackerVars, now, current_time, last_capture_time, last_motion_time,
                 event_start_time, previous_frame, current_event_frames, motion_frame,
                 iter, exitReason, effectVars, histVars>>
  /\ UNCHANGED notDetector

\* while self.running: false, line 546, then the finally block.
LoopExit ==
  /\ pc["loop"] = "top"
  /\ ~running
  /\ pc' = [pc EXCEPT !["loop"] = "exited"]
  /\ exitReason' = "stopped"
  /\ UNCHANGED <<trackerVars, now, running, current_time, last_capture_time,
                 last_motion_time, event_start_time, previous_frame,
                 current_event_frames, motion_frame, iter, effectVars, histVars>>
  /\ UNCHANGED notDetector

\* Lines 547-557: too early for the next still frame, sleep one second;
\* the clock is followed up to limit.
LoopWaitUntil(limit) ==
  /\ pc["loop"] = "top"
  /\ running
  /\ now - last_capture_time < still_frame_interval
  /\ now < limit
  /\ current_time' = now
  /\ now' = now + 1
  /\ lastKind' = "wait"
  /\ UNCHANGED <<trackerVars, running, pc, last_capture_time, last_motion_time,
                 event_start_time, previous_frame, current_event_frames, motion_frame,
                 iter, exitReason, effectVars, episode, saved, flushStarted, cur,
                 lastFlush, stopPending, savedTwice, clearedUnsaved>>
  /\ UNCHANGED notDetector

LoopWait == LoopWaitUntil(MaxNow)

\* Line 560: camera.capture_array raises.  Nothing inside the loop catches
\* it; the except of line 632 around the whole loop does, and start()
\* returns.
LoopCaptureFault ==
  /\ pc["loop"] = "top"
  /\ running
  /\ now - last_capture_time >= still_frame_interval
  /\ current_time' = now
  /\ lastKind' = "fault"
  /\ Raise("loop", "capture")
  /\ UNCHANGED <<trackerVars, now, running, last_capture_time, last_motion_time,
                 event_start_time, previous_frame, current_event_frames, motion_frame,
                 iter, effectVars, episode, saved, flushStarted, cur, lastFlush,
                 stopPending, savedTwice, clearedUnsaved>>
  /\ UNCHANGED notDetector

\* Mutant: the rejected frame is kept as the reference frame.
LoopCorruptedKeepsFrame ==
  /\ pc["loop"] = "top"
  /\ running
  /\ now - last_capture_time >= still_frame_interval
  /\ current_time' = now
  /\ last_capture_time' = now
  /\ previous_frame' = now
  /\ lastKind' = "corrupted"
  /\ UNCHANGED <<trackerVars, now, running, pc, last_motion_time, event_start_time,
                 current_event_frames, motion_frame, iter, exitReason,
                 effectVars, episode, saved, flushStarted, cur, lastFlush, stopPending,
                 savedTwice, clearedUnsaved>>
  /\ UNCHANGED notDetector

\* Lines 559-568: the captured frame is rejected by _is_frame_corrupted.
LoopCorrupted ==
  /\ pc["loop"] = "top"
  /\ running
  /\ now - last_capture_time >= still_frame_interval
  /\ current_time' = now
  /\ last_capture_time' = now
  /\ lastKind' = "corrupted"
  /\ UNCHANGED <<trackerVars, now, running, pc, last_motion_time, event_start_time,
                 previous_frame, current_event_frames, motion_frame, iter, exitReason,
                 effectVars, episode, saved, flushStarted, cur, lastFlush, stopPending,
                 savedTwice, clearedUnsaved>>
  /\ UNCHANGED notDetector

\* Lines 559-592: a good frame is captured, tracked and kept as reference.
\* has_motion is what track_turtle returned (False when it raised, lines
\* 585-586, and on the first frame, which has no reference).
LoopCapture ==
  /\ pc["loop"] = "top"
  /\ running
  /\ now - last_capture_time >= still_frame_interval
  /\ current_time' = now
  /\ last_capture_time' = now
  /\ previous_frame' = now
  /\ \E has_motion \in (IF previous_frame = NoFrame THEN {FALSE} ELSE BOOLEAN) :
       /\ pc' = [pc EXCEPT !["loop"] = IF has_motion THEN "motion" ELSE "check"]
       /\ lastKind' = IF has_motion THEN "motion" ELSE "still"
  /\ UNCHANGED <<trackerVars, now, running, last_motion_time,
                 event_start_time, current_event_frames, motion_frame, iter, exitReason,
                 effectVars, episode, saved, flushStarted, cur, lastFlush, stopPending,
                 savedTwice, clearedUnsaved>>
  /\ UNCHANGED notDetector

\* Mutant: a motion frame does not reset last_motion_time.
LoopMotionNoReset ==
  /\ pc["loop"] = "motion"
  /\ event_start_time' = IF current_event_frames = <<>> THEN current_time
                         ELSE event_start_time
  /\ \E crop \in BOOLEAN :
       motion_frame' = [ts |-> current_time, bbox |-> lastResult[2], crop |-> crop]
  /\ pc' = [pc EXCEPT !["loop"] = "append"]
  /\ UNCHANGED <<trackerVars, now, running, current_time, last_capture_time,
                 last_motion_time, previous_frame, current_event_frames, iter,
                 exitReason, effectVars, histVars>>
  /\ UNCHANGED notDetector

\* Lines 594-612: motion; crop says whether _create_high_res_crop returned
\* an image (it returns None when cropping or resizing raises).
LoopMotion ==
  /\ pc["loop"] = "motion"
  /\ last_motion_time' = current_time
  /\ event_start_time' = IF current_event_frames = <<>> THEN current_time
                         ELSE event_start_time
  /\ \E crop \in BOOLEAN :
       motion_frame' = [ts |-> current_time, bbox |-> lastResult[2], crop |-> crop]
  /\ pc' = [pc EXCEPT !["loop"] = "append"]
  /\ UNCHANGED <<trackerVars, now, running, current_time, last_capture_time,
                 previous_frame, current_event_frames, iter, exitReason,
                 effectVars, histVars>>
  /\ UNCHANGED notDetector

\* Line 615.
LoopAppend ==
  /\ pc["loop"] = "append"
  /\ current_event_frames' = Append(current_event_frames, motion_frame)
  /\ episode' = Append(episode, motion_frame.ts)
  /\ pc' = [pc EXCEPT !["loop"] = "cap"]
  /\ UNCHANGED <<trackerVars, now, running, current_time, last_capture_time,
                 last_motion_time, event_start_time, previous_frame, motion_frame,
                 iter, exitReason, effectVars, saved, flushStarted, cur, lastFlush,
                 stopPending, savedTwice, clearedUnsaved, lastKind>>
  /\ UNCHANGED notDetector

OverCap(frames) == Len(frames) > max_frames

\* Line 618.
LoopCapCheck ==
  /\ pc["loop"] = "cap"
  /\ pc' = [pc EXCEPT !["loop"] = IF OverCap(current_event_frames) THEN "pop" ELSE "top"]
  /\ UNCHANGED <<trackerVars, now, running, current_time, last_capture_time,
                 last_motion_time, event_start_time, previous_frame,
                 current_event_frames, motion_frame, iter, exitReason,
                 effectVars, histVars>>
  /\ UNCHANGED notDetector

\* Mutant: the newest frame is dropped instead of the oldest.
EvictNewest(frames) == SubSeq(frames, 1, Len(frames) - 1)

Evict(frames) == Tail(frames)

\* Line 619: pop(0); on a list emptied meanwhile it raises IndexError.
LoopPop ==
  /\ pc["loop"] = "pop"
  /\ IF current_event_frames = <<>>
     THEN /\ Raise("loop", "IndexError")
          /\ UNCHANGED <<current_event_frames, saved, stopPending>>
     ELSE /\ current_event_frames' = Evict(current_event_frames)
          /\ saved' = saved \cap Range(Timestamps(Evict(current_event_frames)))
          /\ stopPending' = stopPending \cap Range(Timestamps(Evict(current_event_frames)))
          /\ pc' = [pc EXCEPT !["loop"] = "top"]
          /\ UNCHANGED exitReason
  /\ UNCHANGED <<trackerVars, now, running, current_time, last_capture_time,
                 last_motion_time, event_start_time, previous_frame, motion_frame,
                 iter, effectVars, episode, flushStarted, cur, lastFlush,
                 savedTwice, clearedUnsaved, lastKind>>
  /\ UNCHANGED notDetector

\* Mutant: the event ends as soon as the timeout is reached.
TimedOutEarly(frames, t, last) == frames # <<>> /\ t - last >= inactivity_timeout

TimedOut(frames, t, last) == frames # <<>> /\ t - last > inactivity_timeout

\* Lines 621-627: no motion on this frame.
LoopCheckTimeout ==
  /\ pc["loop"] = "check"
  /\ pc' = [pc EXCEPT !["loop"] =
              IF TimedOut(current_event_frames, current_time, last_motion_time)
              THEN "flush" ELSE "top"]
  /\ UNCHANGED <<trackerVars, now, running, current_time, last_capture_time,
                 last_motion_time, event_start_time, previous_frame,
                 current_event_frames, motion_frame, iter, exitReason,
                 effectVars, histVars>>
  /\ UNCHANGED notDetector

\* stop(), lines 641-645.
Stop ==
  /\ pc["stop"] = "idle"
  /\ running' = FALSE
  /\ stopPending' = Range(Timestamps(current_event_frames)) \ saved
  /\ pc' = [pc EXCEPT !["stop"] = IF current_event_frames # <<>> THEN "flush" ELSE "done"]
  /\ UNCHANGED <<trackerVars, now, current_time, last_capture_time, last_motion_time,
                 event_start_time, previous_frame, current_event_frames, motion_frame,
                 iter, exitReason, effectVars, episode, saved, flushStarted, cur,
                 lastFlush, savedTwice, clearedUnsaved, lastKind>>
  /\ UNCHANGED notDetector

\* Where thread t continues after _process_motion_event returns.
AfterFlush(t) == IF t = "loop" THEN "top" ELSE "done"

\* Mutant: the empty-buffer guard is missing.
FlushAlways(frames) == TRUE

FlushNeeded(frames) == frames # <<>>

\* _process_motion_event, lines 513-516.
FlushGuard(t) ==
  /\ pc[t] = "flush"
  /\ IF FlushNeeded(current_event_frames)
     THEN /\ pc' = [pc EXCEPT ![t] = "saving"]
          /\ iter' = [iter EXCEPT ![t] = 0]
          /\ flushStarted' = flushStarted + (IF current_event_frames # <<>> THEN 1 ELSE 0)
          /\ cur' = [cur EXCEPT ![t] = [EmptyFlush EXCEPT
                        !.by = t,
                        !.start = Timestamps(current_event_frames),
                        !.motion = episode,
                        !.at = IF t = "loop" THEN current_time ELSE 0]]
     ELSE /\ pc' = [pc EXCEPT ![t] = AfterFlush(t)]
          /\ UNCHANGED <<iter, flushStarted, cur>>
  /\ UNCHANGED <<trackerVars, now, running, current_time, last_capture_time,
                 last_motion_time, event_start_time, previous_frame,
                 current_event_frames, motion_frame, exitReason, effectVars,
                 episode, saved, lastFlush, stopPending, savedTwice, clearedUnsaved,
                 lastKind>>
  /\ UNCHANGED notDetector

\* _save_frame_data (lines 434-491) on one MotionFrame; fault says whether
\* creating the directory or writing the crop raised.  What it does:
\* "saved" (crop written), "skipped" (no crop), "logged" (the fault was
\* caught at line 490) or "raised".
\* Mutant: the fault is not caught.
_save_frame_data_uncaught(frame, fault) ==
  IF ~frame.crop THEN "skipped"
  ELSE IF fault THEN "raised" ELSE "saved"

_save_frame_data(frame, fault) ==
  IF ~frame.crop THEN "skipped"
  ELSE IF fault THEN "logged" ELSE "saved"

\* Rows and sidecars written by one _save_frame_data call: the block that
\* writes them (lines 456-488) sits after the return of the else branch.
SaveWritesMeta(out) == FALSE
SaveInsertsRow(out) == FALSE

\* Lines 519-520: one step of the for loop over the list.
FlushSave(t) ==
  /\ pc[t] = "saving"
  /\ iter[t] < Len(current_event_frames)
  /\ LET frame == current_event_frames[iter[t] + 1] IN
     \E fault \in (IF frame.crop THEN BOOLEAN ELSE {FALSE}) :
       LET out == _save_frame_data(frame, fault) IN
       /\ saved' = saved \cup {frame.ts}
       /\ savedTwice' = IF frame.ts \in saved THEN savedTwice \cup {frame.ts} ELSE savedTwice
       /\ stopPending' = stopPending \ {frame.ts}
       /\ metaFiles' = IF SaveWritesMeta(out) THEN metaFiles \cup {frame.ts} ELSE metaFiles
       /\ dbRows' = IF SaveInsertsRow(out) THEN dbRows \cup {frame.ts} ELSE dbRows
       /\ cur' = [cur EXCEPT ![t].passed = Append(@, frame.ts),
                             ![t].crops = IF frame.crop THEN @ \cup {frame.ts} ELSE @,
                             ![t].written = IF out = "saved" THEN @ \cup {frame.ts} ELSE @,
                             ![t].failed = IF out \in {"logged", "raised"}
                                           THEN @ \cup {frame.ts} ELSE @]
       /\ IF out = "raised"
          THEN Raise(t, "save")
          ELSE /\ pc' = pc
               /\ UNCHANGED exitReason
  /\ iter' = [iter EXCEPT ![t] = @ + 1]
  /\ UNCHANGED <<trackerVars, now, running, current_time, last_capture_time,
                 last_motion_time, event_start_time, previous_frame,
                 current_event_frames, motion_frame, alertCount,
                 episode, flushStarted, lastFlush, clearedUnsaved, lastKind>>
  /\ UNCHANGED notDetector

\* _trigger_telegram_alert (lines 493-509); result is what subprocess.run
\* did: "ok", "nonzero" exit, or "exception" (timeout, missing interpreter).
\* It returns normally ("returned") or lets the exception out ("raised").
AlertResults == {"ok", "nonzero", "exception"}

\* Mutant: an exception of subprocess.run is not caught.
_trigger_telegram_alert_uncaught(result) ==
  IF result = "exception" THEN "raised" ELSE "returned"

_trigger_telegram_alert(result) == "returned"

\* Lines 519-526: the for loop ends, motion_event.set(), the alert.
FlushAlert(t) ==
  /\ pc[t] = "saving"
  /\ iter[t] >= Len(current_event_frames)
  /\ \E result \in AlertResults :
       /\ alertCount' = alertCount + 1
       /\ cur' = [cur EXCEPT ![t].alert = result]
       /\ IF _trigger_telegram_alert(result) = "raised"
          THEN Raise(t, "alert")
          ELSE /\ pc' = [pc EXCEPT ![t] = "clear"]
               /\ UNCHANGED exitReason
  /\ UNCHANGED <<trackerVars, now, running, current_time, last_capture_time,
                 last_motion_time, event_start_time, previous_frame,
                 current_event_frames, motion_frame, iter, metaFiles, dbRows,
                 episode, saved, flushStarted, lastFlush, stopPending, savedTwice,
                 clearedUnsaved, lastKind>>
  /\ UNCHANGED notDetector

\* Line 529.
FlushClear(t) ==
  /\ pc[t] = "clear"
  /\ current_event_frames' = <<>>
  /\ episode' = <<>>
  /\ saved' = {}
  /\ clearedUnsaved' = clearedUnsaved \cup (Range(Timestamps(current_event_frames)) \ saved)
  /\ lastFlush' = [cur[t] EXCEPT !.clean = (Timestamps(current_event_frames) = cur[t].start)]
  /\ cur' = [cur EXCEPT ![t] = EmptyFlush]
  /\ pc' = [pc EXCEPT ![t] = AfterFlush(t)]
  /\ UNCHANGED <<trackerVars, now, running, current_time, last_capture_time,
                 last_motion_time, event_start_time, previous_frame, motion_frame,
                 iter, exitReason, effectVars, flushStarted, stopPending, savedTwice,
                 lastKind>>
  /\ UNCHANGED notDetector

\* -------------------------------------------------------------- pipeline
\* The loop with its tracker on a given scene, and main() around it: the
\* camera delivers frame k of the scene at FrameTime(k); a
\* KeyboardInterrupt ends start() and main() then calls stop().
FrameTime(k) == BootTime + (k - 1) * still_frame_interval
FrameNo(t) == (t - BootTime) \div still_frame_interval + 1
SceneEnd == FrameTime(SceneLen)

\* What frame k shows: 0 for the background alone, p > 0 for the square at
\* the p-th position of its path.
Scene(k) == IF k \in SquareFirst..SquareLast THEN k - SquareFirst + 1 ELSE 0
SceneAt(t) == IF t = NoFrame THEN 0 ELSE Scene(FrameNo(t))
SquareBox(p) == << 120 + 40 * (p - 1), 90, 50, 50 >>

\* _turtle_localization_comparison on the frames captured at times prev and at:
\* nothing for equal frames; where they differ, the square of the current
\* frame, or the place it left.
SceneLoc(prev, at) ==
  LET a == SceneAt(prev)
      b == SceneAt(at)
  IN IF a = b THEN << FALSE, NoBBox >>
     ELSE << TRUE, SquareBox(IF b # 0 THEN b ELSE a) >>

\* The inputs of a call with a lock: the best match is where the template
\* was cut from, moved by as much as the square moved; whether its score
\* passes 0.6 depends on the texture (good).
SceneTemplate(prev, at, b, good) ==
  LET t == TemplateRect(b)
      s == SearchRect(b)
      p == SceneAt(prev)
      q == SceneAt(at)
      dx == IF p # 0 /\ q # 0 THEN SquareBox(q)[1] - SquareBox(p)[1] ELSE 0
  IN [ good |-> good,
       loc |-> << Max(0, Min(RectW(s) - RectW(t), t.x1 - s.x1 + dx)), t.y1 - s.y1 >>,
       raises |-> FALSE,
       fb |-> SceneLoc(prev, at),
       short |-> FALSE ]

PipeWait == LoopWaitUntil(SceneEnd)

\* Lines 559-592 on the frame of the scene due now.
PipeCapture ==
  /\ pc["loop"] = "top"
  /\ running
  /\ now - last_capture_time >= still_frame_interval
  /\ current_time' = now
  /\ last_capture_time' = now
  /\ previous_frame' = now
  /\ IF previous_frame = NoFrame
     THEN /\ pc' = [pc EXCEPT !["loop"] = "check"]
          /\ lastKind' = "still"
          /\ UNCHANGED trackerVars
     ELSE \E good \in BOOLEAN :
            LET res == IF last_bbox = NoBBox
                       THEN TrackNoLock(SceneLoc(previous_frame, now))
                       ELSE TrackLocked(SceneTemplate(previous_frame, now, last_bbox, good))
            IN /\ ApplyTrack(res)
               /\ calls' = calls + 1
               /\ pc' = [pc EXCEPT !["loop"] = IF res.has_motion THEN "motion" ELSE "check"]
               /\ lastKind' = IF res.has_motion THEN "motion" ELSE "still"
  /\ UNCHANGED <<now, running, last_motion_time,
                 event_start_time, current_event_frames, motion_frame, iter, exitReason,
                 effectVars, episode, saved, flushStarted, cur, lastFlush, stopPending,
                 savedTwice, clearedUnsaved>>
  /\ UNCHANGED notDetector

\* A KeyboardInterrupt while the loop sleeps: it is not an Exception, so
\* only the finally block runs (lines 634-637) and start() is left.
Interrupt ==
  /\ pc["loop"] = "top"
  /\ running
  /\ pc' = [pc EXCEPT !["loop"] = "exited"]
  /\ exitReason' = "interrupted"
  /\ UNCHANGED <<trackerVars, now, running, current_time, last_capture_time,
                 last_motion_time, event_start_time, previous_frame,
                 current_event_frames, motion_frame, iter, effectVars, histVars>>
  /\ UNCHANGED notDetector

\* main(), lines 695-700: detector.stop() once start() has been left.
MainStop == pc["loop"] = "exited" /\ Stop

Next ==
  \/ Tick
  \/ Start
  \/ LoopExit
  \/ LoopWait
  \/ LoopCaptureFault
  \/ LoopCorrupted
  \/ LoopCapture
  \/ LoopMotion
  \/ LoopAppend
  \/ LoopCapCheck
  \/ LoopPop
  \/ LoopCheckTimeout
  \/ Stop
  \/ \E t \in Threads : FlushGuard(t)
  \/ \E t \in Threads : FlushSave(t)
  \/ \E t \in Threads : FlushAlert(t)
  \/ \E t \in Threads : FlushClear(t)

Spec == Init /\ [][Next]_vars

\* ------------------------------------------------ the loop left running
\* The capture loop alone, followed past MaxNow.  From MaxNow on the clock
\* readings are kept relative to now: a second that passes moves
\* last_capture_time and last_motion_time one back, down to the age at
\* which the comparisons of lines 551 and 623 no longer change.
AgedCapture == Max(last_capture_time - 1, MaxNow - still_frame_interval)
AgedMotion == Max(last_motion_time - 1, MaxNow - inactivity_timeout - 1)

\* A second passes while the loop is between two iterations.
TickPast ==
  /\ pc["loop"] = "top"
  /\ now = MaxNow
  /\ <<AgedCapture, AgedMotion>> # <<last_capture_time, last_motion_time>>
  /\ last_capture_time' = AgedCapture
  /\ last_motion_time' = AgedMotion
  /\ UNCHANGED <<trackerVars, now, running, pc, current_time, event_start_time,
                 previous_frame, current_event_frames, motion_frame, iter,
                 exitReason, effectVars, histVars>>
  /\ UNCHANGED notDetector

\* Lines 547-557 past MaxNow: too early for the next frame, sleep a second.
LoopWaitPast ==
  /\ pc["loop"] = "top"
  /\ running
  /\ now = MaxNow
  /\ now - last_capture_time < still_frame_interval
  /\ current_time' = now
  /\ last_capture_time' = AgedCapture
  /\ last_motion_time' = AgedMotion
  /\ lastKind' = "wait"
  /\ UNCHANGED <<trackerVars, now, running, pc, event_start_time, previous_frame,
                 current_event_frames, motion_frame, iter, exitReason, effectVars,
                 episode, saved, flushStarted, cur, lastFlush, stopPending,
                 savedTwice, clearedUnsaved>>
  /\ UNCHANGED notDetector

\* Lines 559-592 on a scene that has come to rest by MaxNow: the frames
\* captured from then on show no motion.
LoopCaptureAtRest ==
  /\ LoopCapture
  /\ now = MaxNow => pc'["loop"] = "check"

\* The steps the loop thread takes by itself once started.
LoopSteps ==
  \/ Start
  \/ LoopWait
  \/ LoopWaitPast
  \/ LoopCaptureFault
  \/ LoopCorrupted
  \/ LoopCaptureAtRest
  \/ LoopMotion
  \/ LoopAppend
  \/ LoopCapCheck
  \/ LoopPop
  \/ LoopCheckTimeout
  \/ FlushGuard("loop")
  \/ FlushSave("loop")
  \/ FlushAlert("loop")
  \/ FlushClear("loop")

NextTimeout ==
  \/ Tick
  \/ TickPast
  \/ LoopSteps

\* The thread of start() is scheduled as long as it can take a step, and
\* time passes; which frame the camera delivers is left open.
SpecTimeout ==
  /\ Init
  /\ [][NextTimeout]_vars
  /\ WF_vars(LoopSteps)
  /\ WF_vars(Tick \/ TickPast)

NextTracker == TrackInitial \/ TrackWithLock

SpecTracker == Init /\ [][NextTracker]_vars

NextTemplate == TemplateCompare

SpecTemplate == InitTemplate /\ [][NextTemplate]_vars

NextCrop == CropMotionArea \/ CreateHighResCrop

SpecCrop == InitCrop /\ [][NextCrop]_vars

NextOrch ==
  \/ OrchTick
  \/ OrchStart
  \/ OrchStop
  \/ OrchLoopExit
  \/ OrchIdle
  \/ OrchMotionEnd
  \/ OrchMotion
  \/ OrchPut
  \/ OrchPutFault
  \/ OrchLoopFault

\* The processing thread is scheduled: a put that can return does, and the
\* loop test is evaluated.  Nothing is assumed of the camera, the clock,
\* exceptions or the caller of stop().
SpecOrch ==
  /\ Init
  /\ [][NextOrch]_vars
  /\ WF_vars(OrchPut)
  /\ WF_vars(OrchLoopExit)

\* The orchestrator next to a client of the crop store that saves crops.
NextGif ==
  \/ NextOrch
  \/ SaveCrop

SpecGif == Init /\ [][NextGif]_vars

NextRelay ==
  \/ RelayTick
  \/ SetRelayManual
  \/ RunPendingNone
  \/ RunPendingJob
  \/ CheckManualOverrides
  \/ HandleHighTemperature

SpecRelay == Init /\ [][NextRelay]_vars

\* The scheduling thread with its expiry check taken step by step, next to
\* the threads that call set_relay and handle_high_temperature.
NextRelayThreads ==
  \/ RelayTick
  \/ SetRelayManual
  \/ HandleHighTemperature
  \/ RunPendingNone
  \/ RunPendingJob
  \/ CheckBegin
  \/ CheckNext
  \/ CheckPop

SpecRelayThreads == Init /\ [][NextRelayThreads]_vars

NextEnv == EnvCheck \/ EnvSleep

SpecEnv == Init /\ [][NextEnv]_vars

\* ------------------------------------------------------- TurtleCamBot
\* Time passes, also during the awaits of the retry loop.
TgTick ==
  /\ tg_now < rate_limit_delay + TgMaxTime
  /\ tg_now' = tg_now + 1
  /\ UNCHANGED <<alert_pc, alert_time, last_message_time, attempt, alert_file,
                 attempts, sent_at>>
  /\ UNCHANGED notTelegram

\* Lines 224-236: the call returns early, rate limited (line 227) or
\* because no artifact could be built (line 234).
AlertSkipped ==
  /\ alert_pc \in {"idle", "done"}
  /\ alert_time' = tg_now
  /\ alert_pc' = "idle"
  /\ attempts' = 0
  /\ sent_at' = 0
  /\ UNCHANGED <<tg_now, last_message_time, attempt, alert_file>>
  /\ UNCHANGED notTelegram

\* Lines 224-239: not rate limited and build_from_recent_frames returned
\* the path of a file; the retry loop is entered.
AlertBuilt ==
  /\ alert_pc \in {"idle", "done"}
  /\ ~(tg_now - last_message_time < rate_limit_delay)
  /\ alert_time' = tg_now
  /\ alert_file' = TRUE
  /\ attempt' = 0
  /\ attempts' = 0
  /\ sent_at' = 0
  /\ alert_pc' = IF max_retries > 0 THEN "send" ELSE "cleanup"
  /\ UNCHANGED <<tg_now, last_message_time>>
  /\ UNCHANGED notTelegram

\* What one pass of the loop body (lines 240-272) ends with: the send
\* returned, RetryAfter, another TelegramError, or an exception that is
\* neither (open() failing, a TypeError, the task being cancelled).
SendOutcomes == {"ok", "retry_after", "telegram_error", "other"}

\* Where the call is after a pass with attempt = a: break (line 260), the
\* next pass, the end of the range, or the except of line 277.
AfterSend(outcome, a) ==
  IF outcome = "ok" THEN "cleanup"
  ELSE IF outcome = "other" THEN "done"
  ELSE IF a + 1 < max_retries THEN "send" ELSE "cleanup"

\* One pass of the retry loop.
AlertAttempt ==
  /\ alert_pc = "send"
  /\ \E outcome \in SendOutcomes :
       /\ alert_pc' = AfterSend(outcome, attempt)
       /\ last_message_time' = IF outcome = "ok" THEN alert_time ELSE last_message_time
       /\ sent_at' = IF outcome = "ok" /\ sent_at = 0 THEN attempts + 1 ELSE sent_at
  /\ attempts' = attempts + 1
  /\ attempt' = attempt + 1
  /\ UNCHANGED <<tg_now, alert_time, alert_file>>
  /\ UNCHANGED notTelegram

\* Line 275: output_path.unlink(missing_ok=True), then the call returns.
AlertCleanup ==
  /\ alert_pc = "cleanup"
  /\ alert_file' = FALSE
  /\ alert_pc' = "done"
  /\ UNCHANGED <<tg_now, alert_time, last_message_time, attempt, attempts, sent_at>>
  /\ UNCHANGED notTelegram

NextTelegram ==
  \/ TgTick
  \/ AlertSkipped
  \/ AlertBuilt
  \/ AlertAttempt
  \/ AlertCleanup

SpecTelegram == Init /\ [][NextTelegram]_vars

NextBBox == LocalizeInitial \/ TrackAtEdges \/ CompareStill

SpecBBox == Init /\ [][NextBBox]_vars

NextPipeline ==
  \/ Start
  \/ PipeWait
  \/ LoopCaptureFault
  \/ LoopCorrupted
  \/ PipeCapture
  \/ LoopMotion
  \/ LoopAppend
  \/ LoopCapCheck
  \/ LoopPop
  \/ LoopCheckTimeout
  \/ Interrupt
  \/ MainStop
  \/ \E t \in Threads : FlushGuard(t)
  \/ \E t \in Threads : FlushSave(t)
  \/ \E t \in Threads : FlushAlert(t)
  \/ \E t \in Threads : FlushClear(t)

SpecPipeline == Init /\ [][NextPipeline]_vars

NextBuilder == Decimate \/ BuildGif \/ Mp4Begin \/ Mp4WriteFrame \/ Mp4Encode

SpecBuilder == InitBuilder /\ [][NextBuilder]_vars

NextFrames == CompareFrames \/ LocalizeFrames \/ CheckCorrupted

SpecFrames == InitFrames /\ [][NextFrames]_vars

\* ------------------------------------------------------------ properties
Buffered == Timestamps(current_event_frames)
Flushing(t) == pc[t] \in {"saving", "clear"}
StopIdle == pc["stop"] = "idle"
Increasing(q) == \A i, j \in 1..Len(q) : i < j => q[i] < q[j]
Last(q) == q[Len(q)]

\* C1: in the capture loop, with stop() not called, an event whose motion
\* frames are followed by still frames is flushed by the first still frame
\* that comes more than inactivity_timeout after the last motion frame: the
\* flush passes exactly the motion frames of the episode to
\* _save_frame_data, in order and each once, and between iterations no
\* overdue event is left in the buffer.
C1_TimeoutFlushOnce ==
  StopIdle =>
    /\ savedTwice = {} /\ clearedUnsaved = {}
    /\ lastFlush.by = "loop" =>
         /\ lastFlush.passed = lastFlush.start
         /\ lastFlush.start = LastN(lastFlush.motion, max_frames)
         /\ lastFlush.at - Last(lastFlush.motion) > inactivity_timeout
         /\ lastFlush.clean
    /\ pc["loop"] = "top" /\ lastKind = "still" /\ current_event_frames # <<>> =>
         current_time - Last(episode) <= inactivity_timeout

\* Motion at BootTime+1 and BootTime+2, then still frames; the flush has run
\* on the first frame later than BootTime+2+inactivity_timeout.
C1_Witness ==
  /\ StopIdle
  /\ pc["loop"] = "top"
  /\ lastFlush.by = "loop"
  /\ lastFlush.passed = <<BootTime + 1, BootTime + 2>>
  /\ lastFlush.at = BootTime + 2 + inactivity_timeout + 1
  /\ flushStarted = 1
  /\ current_event_frames = <<>>

\* C2: between iterations the open event holds at most max_frames frames:
\* the most recent max_frames of those appended to it, oldest first.
C2_FrameCap ==
  pc["loop"] = "top" =>
    /\ Len(current_event_frames) <= max_frames
    /\ Buffered = LastN(episode, max_frames)
    /\ Increasing(Buffered)

C2_Witness ==
  /\ pc["loop"] = "top"
  /\ Len(episode) = max_frames + 1
  /\ Len(current_event_frames) = max_frames
  /\ current_event_frames[1].ts = episode[2]

\* C3: a flush is atomic with respect to the capture loop: every frame is
\* passed to _save_frame_data by exactly one flush before it is cleared,
\* none is cleared unsaved and none is saved twice.
C3_FlushAtomic == savedTwice = {} /\ clearedUnsaved = {}

\* C4: when stop() has returned, every frame that was buffered when it was
\* called has been passed to _save_frame_data, unless the frame cap evicted
\* it first.
C4_StopFlushesAll == pc["stop"] = "done" => stopPending = {}

\* C5: the loop starts a flush only on a frame without motion that comes
\* more than inactivity_timeout after the last motion frame of the event;
\* every motion frame resets last_motion_time; after a timeout flush the
\* buffer only holds frames captured later, and the event they open starts
\* with the first of them.
C5_TimeoutOnly ==
  /\ Flushing("loop") =>
       /\ lastKind = "still"
       /\ cur["loop"].motion # <<>>
       /\ cur["loop"].at - Last(cur["loop"].motion) > inactivity_timeout
  /\ pc["loop"] \in {"top", "check"} /\ episode # <<>> => last_motion_time = Last(episode)
  /\ lastFlush.by = "loop" =>
       \A i \in 1..Len(Buffered) : Buffered[i] > lastFlush.at
  /\ StopIdle /\ pc["loop"] = "top" /\ episode # <<>> => event_start_time = episode[1]

\* A second event is open after a timeout flush.
C5_Witness ==
  /\ StopIdle
  /\ pc["loop"] = "top"
  /\ lastFlush.by = "loop"
  /\ current_event_frames # <<>>
  /\ event_start_time > lastFlush.at

\* C6: _trigger_telegram_alert has been called once for every flush that
\* found the buffer non-empty and got past its saving loop, and never
\* otherwise.
C6_AlertPerFlush ==
  alertCount = flushStarted - Cardinality({ t \in Threads : pc[t] = "saving" })

\* The loop flushed one event; stop() then found the buffer empty.
C6_Witness ==
  /\ pc["stop"] = "done"
  /\ lastFlush.by = "loop"
  /\ current_event_frames = <<>>
  /\ flushStarted = 1
  /\ alertCount = 1

\* C7: every frame with a crop that a completed flush passed to
\* _save_frame_data has a detection row and a metadata sidecar.
C7_DetectionRecorded ==
  \A ts \in lastFlush.crops : ts \in dbRows /\ ts \in metaFiles

\* C8: a fault while saving one frame does not end the flush: the thread
\* goes on saving, and a completed flush that had a fault has passed every
\* frame of the event to _save_frame_data and has triggered the alert.
C8_SaveFaultContained ==
  /\ \A t \in Threads : cur[t].failed # {} => Flushing(t)
  /\ exitReason # "save"
  /\ lastFlush.failed # {} /\ lastFlush.clean =>
       /\ lastFlush.passed = lastFlush.start
       /\ lastFlush.alert # "none"

\* The first of several frames failed to save; the rest were passed on.
C8_Witness ==
  /\ lastFlush.clean
  /\ Len(lastFlush.passed) >= 2
  /\ lastFlush.passed[1] \in lastFlush.failed
  /\ lastFlush.passed = lastFlush.start
  /\ current_event_frames = <<>>

AlertFailed(f) == f.alert \in {"nonzero", "exception"}

\* C9: a failed alert ends neither the loop nor the flush: the thread goes
\* on to clear the buffer, no frame of the flushed event is buffered again,
\* and after a loop flush the buffer only holds frames captured later.
C9_AlertFaultContained ==
  /\ \A t \in Threads : AlertFailed(cur[t]) => pc[t] = "clear"
  /\ exitReason # "alert"
  /\ AlertFailed(lastFlush) =>
       /\ \A i \in 1..Len(Buffered) : Buffered[i] \notin Range(lastFlush.start)
       /\ lastFlush.by = "loop" => \A i \in 1..Len(Buffered) : Buffered[i] > lastFlush.at

\* The alert of a loop flush failed and the next event is open.
C9_Witness ==
  /\ lastFlush.alert = "exception"
  /\ lastFlush.by = "loop"
  /\ pc["loop"] = "top"
  /\ current_event_frames # <<>>
  /\ exitReason = "none"

\* C10: from a lock with confidence 1.0, k consecutive failed calls leave
\* confidence 0.8^k; the lock is held for k = 1..5 and dropped at k = 6,
\* where confidence is first below 0.3, and the call after that takes the
\* no-lock branch.
C10_State ==
  /\ failRun \in 0..5 =>
       /\ last_bbox # NoBBox
       /\ tracking_confidence = ConfPow(failRun)
       /\ ~ConfLess(tracking_confidence, ConfFloor)
  /\ failRun = 6 =>
       /\ last_bbox = NoBBox
       /\ tracking_confidence = ConfPow(6)
       /\ ConfLess(tracking_confidence, ConfFloor)
  /\ failRun <= 6

C10_Step ==
  /\ failRun >= 0 /\ failRun' = failRun + 1 =>
       ConfLeq(tracking_confidence', tracking_confidence)
  /\ failRun = 6 /\ calls' = calls + 1 => lastBranch' = "nolock"

C11_Step ==
  calls' = calls + 1 /\ last_bbox # NoBBox /\ lastBranch' \in {"fallback", "failed"} =>
    /\ 5 * tracking_confidence'.n * tracking_confidence.d
         = 4 * tracking_confidence.n * tracking_confidence'.d
    /\ ConfLeq(tracking_confidence', tracking_confidence)

C11_DecayOnRejectedMatch == [][C11_Step]_vars

InFrame(b) ==
  /\ \A i \in 1..4 : b[i] \in Int
  /\ 0 <= b[1] /\ 0 <= b[2]
  /\ b[1] + b[3] <= FrameW
  /\ b[2] + b[4] <= FrameH

\* C12: every bounding box returned by _compare_still_frames or by
\* track_turtle, and the box the tracker keeps, lies inside the frame:
\* 0 <= x, 0 <= y, x + w <= frame width, y + h <= frame height.
C12_BBoxInFrame ==
  /\ lastResult[2] # NoBBox => InFrame(lastResult[2])
  /\ last_bbox # NoBBox => InFrame(last_bbox)

\* A box found against the bottom-right corner was matched again at the
\* bottom-right corner of its search area and smoothed.
C12_Witness ==
  /\ lastBranch = "matched"
  /\ calls >= 2
  /\ lastResult[2][1] + lastResult[2][3] > FrameW - 2 * TemplateMargin
  /\ lastResult[2][2] + lastResult[2][4] > FrameH - 2 * TemplateMargin

\* C13: for two identical frames _compare_still_frames finds no changed
\* pixel (change percentage zero) and returns (False, None) whatever the
\* threshold, and so does _turtle_localization_comparison.
C13_IdenticalNoMotion ==
  frame1 = frame2 /\ cmpOut.by \in {"compare", "localize"} =>
    /\ cmpOut.changed = 0
    /\ cmpOut.result = << FALSE, NoBBox >>

\* The comparator ran to the end on two identical frames that are not
\* black, with threshold 0.
C13_Witness ==
  /\ frame1 = frame2
  /\ \E i \in 1..Len(frame1.row) : frame1.row[i] # 0
  /\ frame_comparison_threshold = 0
  /\ cmpOut.by = "compare"
  /\ ~cmpOut.raised

SquareTimes == [i \in 1..(SquareLast - SquareFirst + 1) |-> FrameTime(SquareFirst + i - 1)]

\* C14: when every frame of the scene has gone through the pipeline and
\* stop() has returned, exactly one event has been flushed and its frames
\* are those of the frames that show the square, SquareFirst..SquareLast;
\* the frames before and after add none.
C14_EndToEnd ==
  pc["stop"] = "done" /\ previous_frame = SceneEnd /\ calls = SceneLen - 1 =>
    /\ flushStarted = 1
    /\ lastFlush.passed = SquareTimes

Decimated == build_kind = "decimate" \/ build_result = "true" \/ build_pc = "write"

\* C15: _decimate_frames returns the input unchanged when it has at most
\* max_frames frames; otherwise it returns exactly max_frames frames whose
\* source indices are strictly increasing, start with 0, and end within one
\* decimation step (len / max_frames) of the last frame.
C15_Decimation ==
  Decimated =>
    IF n_frames <= max_frames
    THEN selected_frames = SourceIndices(n_frames)
    ELSE /\ Len(selected_frames) = max_frames
         /\ Increasing(selected_frames)
         /\ selected_frames[1] = 0
         /\ \A i \in 1..Len(selected_frames) : selected_frames[i] \in 0..(n_frames - 1)
         /\ (n_frames - 1 - Last(selected_frames)) * max_frames <= n_frames

\* The longest list was decimated.
C15_Witness ==
  /\ build_kind = "decimate"
  /\ n_frames = MaxInput
  /\ Len(selected_frames) = max_frames

\* C16: build_gif and build_mp4 on an empty frame list return False, write
\* no artifact and leave no scratch directory and no scratch file.
C16_EmptyInputFails ==
  n_frames = 0 /\ build_kind \in {"gif", "mp4"} =>
    /\ build_pc = "done"
    /\ build_result = "false"
    /\ ~artifact
    /\ ~temp_frames_dir
    /\ scratch_files = {}

C16_Witness ==
  /\ n_frames = 0
  /\ build_kind = "mp4"
  /\ build_result = "false"

\* C17: once build_mp4 has returned, no scratch frame file and no scratch
\* directory of the call is left, whatever happened.
C17_ScratchRemoved ==
  build_kind = "mp4" /\ build_pc = "done" =>
    /\ ~temp_frames_dir
    /\ scratch_files = {}

Flagged == cmpOut.result[1]
AllPixels(f, v) == ~IsMissing(f) /\ \A i \in 1..Len(f.row) : f.row[i] = v

\* C18: _is_frame_corrupted flags a frame exactly when it is missing or
\* empty, its mean is below 5 or above 250, its standard deviation is below
\* 1 or above 100, or it has more than 100 rows and its middle row has
\* fewer than 10 distinct values; an all-black and an all-white frame are
\* flagged, a ramp of intensities is not.
C18_CorruptionFilter ==
  cmpOut.by = "filter" =>
    /\ Flagged <=>
         \/ frame1.h = 0 \/ frame1.row = <<>>
         \/ SumSeq(frame1.row) < 5 * Len(frame1.row)
         \/ SumSeq(frame1.row) > 250 * Len(frame1.row)
         \/ Spread(frame1.row) < Len(frame1.row) * Len(frame1.row)
         \/ Spread(frame1.row) > 10000 * Len(frame1.row) * Len(frame1.row)
         \/ frame1.h > 100 /\ Cardinality({ frame1.row[i] : i \in 1..Len(frame1.row) }) < 10
    /\ AllPixels(frame1, 0) \/ AllPixels(frame1, MaxPixel) => Flagged
    /\ frame1.row = Ramp(20, 20) => ~Flagged

\* A frame of exactly 100 rows with two intensities, ordinary mean and
\* deviation, passed the filter.
C18_Witness ==
  /\ cmpOut.by = "filter"
  /\ frame1.h = StripeRows
  /\ frame1.row = Alternating(100, 140)
  /\ ~Flagged

\* C19: an iteration whose frame is rejected by _is_frame_corrupted leaves
\* the reference frame, the tracker (last_bbox, tracking_confidence) and
\* the frames of the open event as they were, and the loop goes on with
\* its next iteration.
C19_Step ==
  lastKind' = "corrupted" /\ last_capture_time' # last_capture_time =>
    /\ UNCHANGED <<previous_frame, last_bbox, tracking_confidence, current_event_frames>>
    /\ pc'["loop"] = "top"
    /\ running' = running

C19_CorruptedFrameSkipped == [][C19_Step]_vars

\* A frame was rejected while the tracker held a lock and an event was
\* open.
C19_Witness ==
  /\ lastKind = "corrupted"
  /\ pc["loop"] = "top"
  /\ last_bbox # NoBBox
  /\ current_event_frames # <<>>
  /\ previous_frame # NoFrame
  /\ previous_frame < last_capture_time

\* C20: an iteration whose capture call raises is skipped: the loop is at
\* the top of its next iteration with the reference frame kept, and start()
\* has not returned.
C20_Step ==
  lastKind' = "fault" /\ pc["loop"] = "top" =>
    /\ pc'["loop"] = "top"
    /\ previous_frame' = previous_frame
    /\ exitReason' = "none"

C20_CaptureFaultSkipped == [][C20_Step]_vars

\* C26: a track_turtle call made without a lock runs the localization
\* only; when it reports motion the lock is acquired (last_bbox is the
\* detected box, tracking_confidence is exactly 1.0), otherwise the tracker
\* state is unchanged and the call returns (False, None).
C26_Step ==
  last_bbox = NoBBox /\ calls' = calls + 1 =>
    /\ lastBranch' = "nolock"
    /\ IF lastResult'[1]
       THEN /\ lastResult'[2] # NoBBox
            /\ last_bbox' = lastResult'[2]
            /\ tracking_confidence' = ConfOne
       ELSE /\ lastResult' = <<FALSE, NoBBox>>
            /\ UNCHANGED <<last_bbox, tracking_confidence>>

C26_NoLockAcquires == [][C26_Step]_vars

\* After a reset (no lock, confidence decayed below 0.3 and left there) a
\* call without a lock found no motion.
C26_Witness ==
  /\ lastBranch = "nolock"
  /\ lastResult = <<FALSE, NoBBox>>
  /\ last_bbox = NoBBox
  /\ tracking_confidence # ConfZero
  /\ ConfLess(tracking_confidence, ConfFloor)

ConfInRange(c) == ConfLeq(ConfZero, c) /\ ConfLeq(c, ConfOne)

\* C27: tracking_confidence is within [0, 1] after every track_turtle call.
\* An accepted template match adds 0.1 and stops at 1.0, a failed call
\* multiplies by 0.8, and acquiring the lock sets 1.0.
C27_Step ==
  calls' = calls + 1 =>
    /\ lastBranch' = "matched" =>
         /\ ConfLeq(tracking_confidence, tracking_confidence')
         /\ LET up == Frac(10 * tracking_confidence.n + tracking_confidence.d,
                           10 * tracking_confidence.d)
            IN tracking_confidence' = IF ConfLeq(ConfOne, up) THEN ConfOne ELSE up
    /\ lastBranch' = "failed" =>
         tracking_confidence' = Frac(4 * tracking_confidence.n, 5 * tracking_confidence.d)
    /\ lastBranch' = "nolock" /\ lastResult'[1] => tracking_confidence' = ConfOne

C27_ConfidenceInRange == []ConfInRange(tracking_confidence) /\ [][C27_Step]_vars

\* An accepted template match at confidence 1.0: the raise stopped at 1.0.
C27_Witness ==
  /\ lastBranch = "matched"
  /\ tracking_confidence = ConfOne
  /\ failRun = 0

\* round(num / den) for num >= 0, den > 0, halves going to the even
\* neighbour.
RoundDiv(num, den) ==
  LET q == num \div den
      r == num % den
  IN IF 2 * r < den THEN q
     ELSE IF 2 * r > den THEN q + 1
     ELSE IF q % 2 = 0 THEN q ELSE q + 1

\* C28: when more than max_frames frames are decimated, output position i
\* (0 .. max_frames - 1) holds the source frame of index
\* round(i * len(frames) / max_frames).
C28_RoundedIndex ==
  Decimated /\ n_frames > max_frames =>
    \A i \in 1..max_frames :
      /\ i <= Len(selected_frames)
      /\ selected_frames[i] = RoundDiv((i - 1) * n_frames, max_frames)

\* C30: when the template cut is empty or under 10 px in a dimension, or
\* the search area is empty, or matchTemplate raises, the call does not
\* raise and returns what the fallback localization returns for the two
\* frames.
C30_Degenerate ==
  LET x1 == Max(0, tmpl_bbox[1] - TemplateMargin)
      x2 == Min(FrameW, tmpl_bbox[1] + tmpl_bbox[3] + TemplateMargin)
      y1 == Max(0, tmpl_bbox[2] - TemplateMargin)
      y2 == Min(FrameH, tmpl_bbox[2] + tmpl_bbox[4] + TemplateMargin)
      sx1 == Max(0, tmpl_bbox[1] - SearchMargin)
      sx2 == Min(FrameW, tmpl_bbox[1] + tmpl_bbox[3] + SearchMargin)
      sy1 == Max(0, tmpl_bbox[2] - SearchMargin)
      sy2 == Min(FrameH, tmpl_bbox[2] + tmpl_bbox[4] + SearchMargin)
  IN \/ x2 - x1 < MinTemplate
     \/ y2 - y1 < MinTemplate
     \/ sx2 <= sx1
     \/ sy2 <= sy1
     \/ tmpl_out.in.raises

C29_CropRect ==
  crop_out.by # "none" /\ ~crop_out.fault =>
    LET r == crop_out.rect
    IN /\ 0 <= r.x1 /\ r.x2 <= FrameW
       /\ 0 <= r.y1 /\ r.y2 <= FrameH
       /\ r.x1 <= Max(0, crop_bbox[1] - crop_margin)
       /\ r.y1 <= Max(0, crop_bbox[2] - crop_margin)
       /\ r.x2 >= Min(FrameW, crop_bbox[1] + crop_bbox[3] + crop_margin)
       /\ r.y2 >= Min(FrameH, crop_bbox[2] + crop_bbox[4] + crop_margin)
       /\ r.x2 - r.x1 >= MinCropSize
       /\ r.y2 - r.y1 >= MinCropSize
       /\ crop_out.by = "high_res" => crop_out.size[1] <= alert_downscale_width

\* C21: a _handle_motion_detection that has been entered returns and the
\* loop reaches its next iteration, whatever the number of detections
\* before it; once running is false the loop ends.
C21_LoopNeverStalled ==
  /\ (orch_pc = "put") ~> (orch_pc = "top")
  /\ (orch_pc # "idle" /\ ~orch_running) ~> (orch_pc = "exited")

Timed(table) == { r \in DOMAIN table : table[r].until # NoUntil }

\* C23: a manual set_relay with a duration sets the relay and records an
\* override; a recorded override with a duration is still recorded as long
\* as its expiry time has not come; the first _check_manual_overrides at
\* or after the expiry time removes it; that check never removes an
\* override without a duration.
C23_Step ==
  /\ relay_last'.op = "manual" /\ relay_last'.duration > 0 =>
       /\ relays'[relay_last'.relay] = relay_last'.state
       /\ relay_last'.relay \in Timed(manual_overrides')
       /\ manual_overrides'[relay_last'.relay].state = relay_last'.state
  /\ \A r \in Timed(manual_overrides) :
       relay_now' < manual_overrides[r].until => r \in DOMAIN manual_overrides'
  /\ sched_pc = "check" /\ sched_pc' = "run" =>
       /\ \A r \in Timed(manual_overrides) :
            relay_now >= manual_overrides[r].until => r \notin DOMAIN manual_overrides'
       /\ \A r \in DOMAIN manual_overrides \ Timed(manual_overrides) :
            r \in DOMAIN manual_overrides'
            /\ manual_overrides'[r] = manual_overrides[r]

C23_OverrideUntilExpiry == [][C23_Step]_vars

\* The state a check leaves: env_last describes the check made at env_now.
Checked == env_pc = "sleep" /\ env_last.at = env_now
Spaced(alerts) == \A a, b \in alerts : a < b => b - a > alert_cooldown
Recent(alerts) == \E a \in alerts \ {env_now} : env_now - a <= alert_cooldown

\* C24: a check sends a low (high) alert exactly when the reading is below
\* the low (above the high) threshold and no alert of that kind was sent
\* within alert_cooldown; a reading in the normal range sends no alert and
\* calls no safety callback; two alerts of a kind are more than
\* alert_cooldown apart.
C24_AlertIffOutsideCooldown ==
  /\ Spaced(low_alerts)
  /\ Spaced(high_alerts)
  /\ Checked =>
       LET t == env_last.temperature
       IN /\ env_last.low <=> env_now \in low_alerts
          /\ env_last.high <=> env_now \in high_alerts
          /\ env_last.low <=>
               t # NoReading /\ t < temp_low_threshold /\ ~Recent(low_alerts)
          /\ env_last.high <=>
               t # NoReading /\ t > temp_high_threshold /\ ~Recent(high_alerts)
          /\ t # NoReading /\ t >= temp_low_threshold /\ t <= temp_high_threshold =>
               ~env_last.low /\ ~env_last.high /\ ~env_last.safety

\* A reading above the threshold sent no alert because one was sent within
\* the cooldown, and an earlier one had been sent after the cooldown of the
\* first.
C24_Witness ==
  /\ Checked
  /\ env_last.temperature > temp_high_threshold
  /\ ~env_last.high
  /\ Cardinality(high_alerts) >= 2

C31_MotionHasBBox ==
  /\ lastResult[1] => lastResult[2] # NoBBox /\ Len(lastResult[2]) = 4
  /\ pc["loop"] = "append" => motion_frame.bbox # NoBBox
  /\ \A i \in 1..Len(current_event_frames) :
       /\ current_event_frames[i].bbox # NoBBox
       /\ Len(current_event_frames[i].bbox) = 4

\* The event holds a frame found without a lock and, last, the frame of a
\* call with a lock that returned the smoothed box.
C31_Witness ==
  /\ Len(current_event_frames) > 1
  /\ lastBranch \in {"matched", "fallback", "relocalized"}
  /\ lastResult[1]
  /\ Last(current_event_frames).bbox = lastResult[2]

\* C32: an Active event is eventually flushed once no motion has been seen
\* for longer than inactivity_timeout, as long as the loop keeps running
\* and frames keep arriving, also when every later frame is rejected as
\* corrupted.
C32_TimeoutFlushes ==
  (/\ running
   /\ pc["loop"] = "top"
   /\ TimedOut(current_event_frames, now, last_motion_time))
    ~> (current_event_frames = <<>> \/ pc["loop"] = "exited")

\* The best match lies where the template was cut from: the subject did
\* not move between the two frames.
C33_Unmoved(in) ==
  /\ in.good
  /\ ~TemplateDegenerate(last_bbox, in.raises)
  /\ in.loc = << TemplateRect(last_bbox).x1 - SearchRect(last_bbox).x1,
                 TemplateRect(last_bbox).y1 - SearchRect(last_bbox).y1 >>

C33_Step ==
  last_bbox # NoBBox =>
    \A in \in TemplateInputs(last_bbox) :
      C33_Unmoved(in) /\ ApplyTrack(TrackLocked(in)) =>
        /\ lastResult'[2] = last_bbox
        /\ last_bbox' = last_bbox

\* C33: template tracking has the subject's position as a fixed point: a
\* call whose best match is where the template was cut from returns the
\* last bbox and keeps it, so an unmoving subject never drifts the bbox.
C33_UnmovedKeepsBBox == [][C33_Step]_vars

\* The overrides of the table in force at time t: recorded and not expired.
C34_InForce(table, t) ==
  { r \in DOMAIN table : table[r].until = NoUntil \/ t < table[r].until }

\* A step of the scheduling thread that runs a due job.
C34_Step ==
  sched_pc = "run" /\ relay_last'.op = "schedule" =>
    \A r \in C34_InForce(manual_overrides, relay_now) :
      /\ relays'[r] = relays[r]
      /\ r \in DOMAIN manual_overrides'
      /\ manual_overrides'[r] = manual_overrides[r]

\* C34: while a manual override of a relay is in force no scheduled job
\* changes the relay's state or removes the override; after
\* handle_high_temperature the heat relay stays off under its override
\* whatever jobs come due.
C34_ScheduleRespectsOverride == [][C34_Step]_vars

\* A step taken by another thread while the check is inside the loop of
\* line 266.
C35_Step ==
  sched_pc = "iter" /\ sched_pc' = sched_pc /\ check_iter' = check_iter =>
    DOMAIN manual_overrides' = DOMAIN manual_overrides

\* C35: no set_relay adds or removes an override while
\* _check_manual_overrides is iterating the table, and the scheduling loop
\* does not end while running is true (stop() is never called here).
C35_CheckNotInterleaved == [](sched_pc # "ended") /\ [][C35_Step]_vars

\* C36: each GIF built at the end of a motion sequence holds exactly the
\* crops fetched for that sequence, oldest first: the builder's buffer was
\* empty when _handle_motion_end began to add frames.
C36_GifOfThisSequence ==
  last_gif.created =>
    /\ last_gif.before = <<>>
    /\ Range(last_gif.frames) = Range(last_gif.fetched)
    /\ Len(last_gif.frames) = Len(last_gif.fetched)
    /\ Increasing(last_gif.frames)

C37_Step ==
  /\ gif_count' # gif_count =>
       /\ gif_count' = gif_count + 1
       /\ motion_active /\ ~motion_active'
       /\ orch_last_motion_time >= 0
       /\ orch_now - orch_last_motion_time >= orch_inactivity_timeout
  /\ motion_active /\ ~motion_active' => gif_count' = gif_count + 1
  /\ ~motion_active /\ motion_active' =>
       /\ orch_last_motion_time' = orch_now
       /\ gif_count' = gif_count

\* C37: _handle_motion_end runs only with motion_active set and at least
\* inactivity_timeout after the last detection, and clears motion_active;
\* only a new detection sets it again, so the handler runs at most once
\* per motion episode.
C37_MotionEndOncePerEpisode == [][C37_Step]_vars

\* A second episode has been ended by the handler.
C37_Witness ==
  /\ gif_count > 1
  /\ ~motion_active
  /\ orch_now - orch_last_motion_time >= orch_inactivity_timeout

\* C38: running is true only while the processing thread is alive: once
\* the processing loop has ended, by the loop test or by an exception,
\* running is false, so that start() can start the pipeline again.
C38_RunningOnlyWhileAlive ==
  orch_running => orch_pc \notin {"idle", "exited"}

\* C39: send_motion_alert makes at most max_retries send attempts for one
\* alert, none after the first that succeeded, and when it has returned
\* the artifact it built is removed, whether or not an attempt succeeded.
C39_BoundedRetriesAndCleanup ==
  /\ attempts <= max_retries
  /\ sent_at # 0 => attempts = sent_at
  /\ alert_pc = "done" => ~alert_file

====
